---------------------------- MODULE Spec2Model ----------------------------
(***************************************************************************)
(* badbit: a two-asset spot exchange.  The model covers the order book     *)
(* (src/src/orderbook.rs), the account ledger (src/src/account.rs) and the *)
(* engine actor (src/src/engine.rs) that owns both.                        *)
(*                                                                         *)
(* Decimal prices and balances are modelled as integers (one unit = one    *)
(* tick); u64 quantities as naturals.  Trade.timestamp (wall clock read    *)
(* once per process_order call) is left out: no operation reads it back.   *)
(***************************************************************************)
EXTENDS Integers, Sequences, FiniteSets, TLC

VARIABLES
    orderbook,       \* OrderBook { bids, asks }: price -> queue of resting orders
    balances,        \* AccountManager.balances: user -> asset -> UserBalance
    trades_history,  \* the actor's Vec<Trade>
    mailbox,         \* mpsc channel of EngineMessage, oldest first
    db_tx,           \* every DbMessage sent on db_tx so far, oldest first
    db_taken,        \* how many of them the persistence sink has received
    pending,         \* what the handler suspended in db_tx.send still has to send
    replies,         \* values sent on the one-shot reply channels, oldest first
    handled,         \* the messages the actor has received, oldest first
    since_trim,      \* trades appended since trades_history was last cut back
    issued,          \* number of distinct order ids handed out so far
    sent,            \* number of messages put into the mailbox so far
    call,            \* the last operation applied: its input, the state before, its result
    gateway,         \* the wall clock create_order reads and the simulator's id_counter
    links,           \* which ends of the actor's channels are still held, and whether it runs
    socket           \* the snapshot broadcast and one subscriber's handle_socket loop

vars == <<orderbook, balances, trades_history, mailbox, db_tx, db_taken,
          pending, replies, handled, since_trim, issued, sent, call,
          gateway, links, socket>>

\* what lies around the book, the ledger and the actor's queues
env_vars == <<gateway, links, socket>>

-----------------------------------------------------------------------------
(* Bounds of the model *)

\* number of process_order calls explored from the empty book
MaxCalls == 3

\* order prices (Decimal) and quantities (u64) fed to the order book
Prices == {90, 100, 101}
Quantities == {10, 15}
\* price field of a market order: the sentinel 0, or any other value
MarketPrices == {0, 101}

\* number of AccountManager calls explored from AccountManager::new()
MaxAccountCalls == 3

\* number of messages sent to the engine actor
MaxMsgs == 3

\* capacity of the bounded channel to the persistence sink, scaled down from
\* mpsc::channel::<DbMessage>(10000)
DbCapacity == 2

\* (price, quantity) of the limit orders the gateway and the simulator send to
\* the engine actor, and price and quantity of the gateway's market orders
EngineLimits == {<<100, 5>>, <<100, 10>>, <<101, 10>>}
SimulatorLimits == {<<100, 5>>, <<101, 10>>}
EngineMarketPrices == {0}
EngineMarketQuantities == {10}

\* users, and the amounts, prices and quantities fed to the ledger
Users == {"u1", "u2"}
LoadAmounts == {20, 1000}
AccountPrices == {0, 50}
AccountQuantities == {10}

-----------------------------------------------------------------------------
(* models.rs *)

Buy == "Buy"
Sell == "Sell"
Side == {Buy, Sell}

Limit == "Limit"
Market == "Market"
OrderType == {Limit, Market}

\* Option<Uuid>::None
NoUser == "none"

Order(id, price, quantity, side, user_id, order_type) ==
    [id |-> id, price |-> price, quantity |-> quantity, side |-> side,
     user_id |-> user_id, order_type |-> order_type]

\* placeholder where a record has no order to carry
NoOrder == Order(0, 0, 0, Buy, NoUser, Limit)

Trade(maker_id, taker_id, price, quantity) ==
    [maker_id |-> maker_id, taker_id |-> taker_id, price |-> price,
     quantity |-> quantity]

-----------------------------------------------------------------------------
(* orderbook.rs *)

\* BTreeMap helpers: a map is a function whose DOMAIN is its key set
MapRemove(m, k) == [p \in DOMAIN m \ {k} |-> m[p]]
MapPut(m, k, v) == [p \in DOMAIN m \cup {k} |-> IF p = k THEN v ELSE m[p]]

SetMin(S) == CHOOSE x \in S : \A y \in S : x <= y
SetMax(S) == CHOOSE x \in S : \A y \in S : x >= y

\* OrderBook::new
NewOrderBook == [bids |-> <<>>, asks |-> <<>>]

\* asks.keys().next(): the lowest ask price
HighestAsk(asks) == SetMax(DOMAIN asks)
BestAsk(asks) == SetMin(DOMAIN asks)

\* bids.keys().next_back(): the highest bid price
BestBid(bids) == SetMax(DOMAIN bids)

\* the guards `p <= taker_price` (Buy) and `p >= taker_price` (Sell)
LimitCrossesStrictly(side, taker_price, p) ==
    IF side = Buy THEN p < taker_price ELSE p > taker_price
LimitCrosses(side, taker_price, p) ==
    IF side = Buy THEN p <= taker_price ELSE p >= taker_price

\* A market order takes whatever the best opposite level is
CrossesByPriceOnly(taker_order, p) ==
    LimitCrosses(taker_order.side, taker_order.price, p)
Crosses(taker_order, p) ==
    \/ taker_order.order_type = Market
    \/ LimitCrosses(taker_order.side, taker_order.price, p)

\* Only a limit order's remainder is put on the book
Rests(taker_order) ==
    taker_order.quantity > 0 /\ taker_order.order_type = Limit

\* orders_at_price.pop_front()
PopBack(queue) ==
    [order |-> queue[Len(queue)], rest |-> SubSeq(queue, 1, Len(queue) - 1)]
PopFront(queue) == [order |-> Head(queue), rest |-> Tail(queue)]

\* std::cmp::min(taker_order.quantity, maker_order.quantity)
MatchQuantityOfTaker(taker_quantity, maker_quantity) == taker_quantity
MatchQuantity(taker_quantity, maker_quantity) ==
    IF taker_quantity <= maker_quantity THEN taker_quantity ELSE maker_quantity

\* trades.push(Trade { maker_id, taker_id, price: first_price, quantity })
NewTradeAtTakerPrice(maker_order, taker_order, first_price, match_quantity) ==
    Trade(maker_order.id, taker_order.id, taker_order.price, match_quantity)
NewTrade(maker_order, taker_order, first_price, match_quantity) ==
    Trade(maker_order.id, taker_order.id, first_price, match_quantity)

\* if maker_order.quantity > 0 { orders_at_price.push_front(maker_order) }
RequeueNever(maker_order, rest) == rest
RequeueAtBack(maker_order, rest) ==
    IF maker_order.quantity > 0 THEN Append(rest, maker_order) ELSE rest
Requeue(maker_order, rest) ==
    IF maker_order.quantity > 0 THEN <<maker_order>> \o rest ELSE rest

\* The inner loop over one price level: fills the head order until the taker
\* or the level is exhausted.
RECURSIVE FillLevel(_, _, _, _)
FillLevel(orders_at_price, taker_order, first_price, trades) ==
    IF taker_order.quantity > 0 /\ orders_at_price # <<>>
    THEN LET popped == PopFront(orders_at_price)
             maker_order == popped.order
             match_quantity ==
                 MatchQuantity(taker_order.quantity, maker_order.quantity)
             trade == NewTrade(maker_order, taker_order, first_price,
                               match_quantity)
             taker2 == [taker_order EXCEPT !.quantity = @ - match_quantity]
             maker2 == [maker_order EXCEPT !.quantity = @ - match_quantity]
         IN  FillLevel(Requeue(maker2, popped.rest), taker2, first_price,
                       Append(trades, trade))
    ELSE [orders_at_price |-> orders_at_price, taker_order |-> taker_order,
          trades |-> trades]

\* if orders_at_price.is_empty() { side.remove(&first_price) }
DropIfEmpty(levels, first_price, orders_at_price) ==
    IF orders_at_price = <<>>
    THEN MapRemove(levels, first_price)
    ELSE MapPut(levels, first_price, orders_at_price)

\* Side::Buy: the outer loop over the asks, lowest price first
RECURSIVE MatchAsks(_, _, _)
MatchAsks(asks, taker_order, trades) ==
    IF /\ taker_order.quantity > 0
       /\ DOMAIN asks # {}
       /\ Crosses(taker_order, BestAsk(asks))
    THEN LET first_price == BestAsk(asks)
             r == FillLevel(asks[first_price], taker_order, first_price, trades)
         IN  MatchAsks(DropIfEmpty(asks, first_price, r.orders_at_price),
                       r.taker_order, r.trades)
    ELSE [levels |-> asks, taker_order |-> taker_order, trades |-> trades]

\* Side::Sell: the outer loop over the bids, highest price first
RECURSIVE MatchBids(_, _, _)
MatchBids(bids, taker_order, trades) ==
    IF /\ taker_order.quantity > 0
       /\ DOMAIN bids # {}
       /\ Crosses(taker_order, BestBid(bids))
    THEN LET first_price == BestBid(bids)
             r == FillLevel(bids[first_price], taker_order, first_price, trades)
         IN  MatchBids(DropIfEmpty(bids, first_price, r.orders_at_price),
                       r.taker_order, r.trades)
    ELSE [levels |-> bids, taker_order |-> taker_order, trades |-> trades]

\* side.entry(taker_price).or_default().push_back(taker_order)
RestTaker(levels, taker_order) ==
    LET taker_price == taker_order.price
        queue == IF taker_price \in DOMAIN levels THEN levels[taker_price]
                 ELSE <<>>
    IN  MapPut(levels, taker_price, Append(queue, taker_order))

\* OrderBook::process_order: the book after the call and the trades returned
process_order(book, taker_order) ==
    IF taker_order.side = Buy
    THEN LET m == MatchAsks(book.asks, taker_order, <<>>)
         IN  [book |-> [bids |-> IF Rests(m.taker_order)
                                 THEN RestTaker(book.bids, m.taker_order)
                                 ELSE book.bids,
                        asks |-> m.levels],
              trades |-> m.trades]
    ELSE LET m == MatchBids(book.bids, taker_order, <<>>)
         IN  [book |-> [bids |-> m.levels,
                        asks |-> IF Rests(m.taker_order)
                                 THEN RestTaker(book.asks, m.taker_order)
                                 ELSE book.asks],
              trades |-> m.trades]

-----------------------------------------------------------------------------
(* account.rs *)

USDC == "USDC"
BAD == "BAD"
Assets == {USDC, BAD}

\* UserBalance::default()
OneAvailable == [available |-> 1, locked |-> 0]
DefaultBalance == [available |-> 0, locked |-> 0]

\* AccountManager::new
NewAccountManager == <<>>

\* balances.entry(user_id).or_default()
UserEntry(bal, user_id) ==
    IF user_id \in DOMAIN bal THEN bal[user_id] ELSE <<>>

\* user_balances.entry(asset).or_default()
AssetEntry(user_balances, asset) ==
    IF asset \in DOMAIN user_balances THEN user_balances[asset]
    ELSE DefaultBalance

\* AccountManager::load_balance
load_balance(bal, user_id, asset, available, locked) ==
    MapPut(bal, user_id,
           MapPut(UserEntry(bal, user_id), asset,
                  [available |-> available, locked |-> locked]))

\* AccountManager::get_balance: (available, locked), (0, 0) for an unknown pair
get_balance(bal, user_id, asset) ==
    IF user_id \in DOMAIN bal /\ asset \in DOMAIN bal[user_id]
    THEN <<bal[user_id][asset].available, bal[user_id][asset].locked>>
    ELSE <<0, 0>>

\* the asset and amount a new order commits
LockAsset(side) == IF side = Buy THEN USDC ELSE BAD
AmountToLockIsQuantity(side, price, quantity) == quantity
AmountToLock(side, price, quantity) ==
    IF side = Buy THEN price * quantity ELSE quantity

\* balance.available -= amount_to_lock; balance.locked += amount_to_lock
MoveToLockedDropsLock(balance, amount_to_lock) ==
    [available |-> balance.available - amount_to_lock, locked |-> balance.locked]
MoveToLockedNothing(balance, amount_to_lock) == balance
MoveToLocked(balance, amount_to_lock) ==
    [available |-> balance.available - amount_to_lock,
     locked |-> balance.locked + amount_to_lock]

\* the ledger with one (user, asset) entry written
WithBalance(bal, user_id, asset, balance) ==
    MapPut(bal, user_id, MapPut(UserEntry(bal, user_id), asset, balance))

\* if balance.available < amount_to_lock { return Err(..) }: the entries
\* entry().or_default() made stay, holding what they held
LockRefusedAfterMove(bal, user_id, asset, balance, amount_to_lock) ==
    [ok |-> FALSE,
     balances |-> WithBalance(bal, user_id, asset,
                              MoveToLocked(balance, amount_to_lock))]
LockRefused(bal, user_id, asset, balance, amount_to_lock) ==
    [ok |-> FALSE, balances |-> WithBalance(bal, user_id, asset, balance)]

\* AccountManager::try_lock_balance: Ok/Err and the ledger after the call
try_lock_balance(bal, user_id, side, price, quantity) ==
    LET asset == LockAsset(side)
        amount_to_lock == AmountToLock(side, price, quantity)
        balance == AssetEntry(UserEntry(bal, user_id), asset)
    IN  IF balance.available < amount_to_lock
        THEN LockRefused(bal, user_id, asset, balance, amount_to_lock)
        ELSE [ok |-> TRUE,
              balances |-> WithBalance(bal, user_id, asset,
                                       MoveToLocked(balance, amount_to_lock))]

\* Side::Buy arm: usdc.locked -= trade_value; bad.available += qty_dec
SettleBuyFromAvailable(user_balances, trade_value, qty_dec) ==
    LET usdc == AssetEntry(user_balances, USDC)
        bad == AssetEntry(user_balances, BAD)
    IN  MapPut(MapPut(user_balances, USDC,
                      [usdc EXCEPT !.available = @ - trade_value]),
               BAD, [bad EXCEPT !.available = @ + qty_dec])
SettleBuyKeepsLocked(user_balances, trade_value, qty_dec) ==
    LET bad == AssetEntry(user_balances, BAD)
    IN  MapPut(MapPut(user_balances, USDC, AssetEntry(user_balances, USDC)),
               BAD, [bad EXCEPT !.available = @ + qty_dec])
SettleBuy(user_balances, trade_value, qty_dec) ==
    LET usdc == AssetEntry(user_balances, USDC)
        bad == AssetEntry(user_balances, BAD)
    IN  MapPut(MapPut(user_balances, USDC,
                      [usdc EXCEPT !.locked = @ - trade_value]),
               BAD, [bad EXCEPT !.available = @ + qty_dec])

\* Side::Sell arm: bad.locked -= qty_dec; usdc.available += trade_value
SettleSell(user_balances, trade_value, qty_dec) ==
    LET usdc == AssetEntry(user_balances, USDC)
        bad == AssetEntry(user_balances, BAD)
    IN  MapPut(MapPut(user_balances, BAD,
                      [bad EXCEPT !.locked = @ - qty_dec]),
               USDC, [usdc EXCEPT !.available = @ + trade_value])

\* AccountManager::on_trade_match
on_trade_match_everyone(bal, user_id, side, price, quantity) ==
    [u \in DOMAIN bal |->
        IF side = Buy
        THEN SettleBuy(bal[u], price * quantity, quantity)
        ELSE SettleSell(bal[u], price * quantity, quantity)]
on_trade_match(bal, user_id, side, price, quantity) ==
    LET qty_dec == quantity
        trade_value == price * qty_dec
        user_balances == UserEntry(bal, user_id)
    IN  IF side = Buy
        THEN MapPut(bal, user_id, SettleBuy(user_balances, trade_value, qty_dec))
        ELSE MapPut(bal, user_id, SettleSell(user_balances, trade_value, qty_dec))

-----------------------------------------------------------------------------
(* engine.rs *)

\* trades_history is cut back to LowWaterMark entries once it is longer than
\* HighWaterMark
HighWaterMark == 5000
LowWaterMark == 2000

\* EngineMessage
PlaceOrderMsg(order, respond_to) ==
    [type |-> "PlaceOrder", order |-> order, respond_to |-> respond_to]
GetOrderBookMsg(respond_to) ==
    [type |-> "GetOrderBook", order |-> NoOrder, respond_to |-> respond_to]
GetTradesMsg(respond_to) ==
    [type |-> "GetTrades", order |-> NoOrder, respond_to |-> respond_to]
\* CancelOrder { order_id, user_id, respond_to }: the order field carries the
\* two, nothing else of it is read
CancelOrderMsg(order_id, user_id, respond_to) ==
    [type |-> "CancelOrder",
     order |-> Order(order_id, 0, 0, Buy, user_id, Limit),
     respond_to |-> respond_to]

\* an intent that carries the available amount only (what C37 rules out)
UpdateBalanceMsgAvailableOnly(bal, user_id, asset) ==
    [type |-> "UpdateBalance", user_id |-> user_id, asset |-> asset,
     available |-> get_balance(bal, user_id, asset)[1],
     locked |-> 0]

\* DbMessage
UpdateBalanceMsg(bal, user_id, asset) ==
    [type |-> "UpdateBalance", user_id |-> user_id, asset |-> asset,
     available |-> get_balance(bal, user_id, asset)[1],
     locked |-> get_balance(bal, user_id, asset)[2]]
SaveTradeMsg(trade, user_id) ==
    [type |-> "SaveTrade", maker_order_id |-> trade.maker_id,
     taker_order_id |-> trade.taker_id, price |-> trade.price,
     quantity |-> trade.quantity, user_id |-> user_id]

\* respond_to.send(value)
Reply(respond_to, value) == [respond_to |-> respond_to, value |-> value]

\* respond_to.send(orderbook.clone()), respond_to.send(trades_history.clone()):
\* the value sent is a copy that belongs to the caller; `owner` tells whose
\* memory a reader of the reply looks at
SharedReply(respond_to, value) ==
    [respond_to |-> respond_to, value |-> value, owner |-> "engine"]
ClonedReply(respond_to, value) ==
    [respond_to |-> respond_to, value |-> value, owner |-> "caller"]

\* Option<Order>
None == <<>>
Some(order) == <<order>>

\* for trade in &new_trades { on_trade_match(..); db_tx.send(SaveTrade {..}) }
SettleTradesUnsaved(bal, db, order, new_trades) == [balances |-> bal, db |-> db]
RECURSIVE SettleTrades(_, _, _, _)
SettleTrades(bal, db, order, new_trades) ==
    IF new_trades = <<>>
    THEN [balances |-> bal, db |-> db]
    ELSE LET trade == Head(new_trades)
         IN  SettleTrades(on_trade_match(bal, order.user_id, order.side,
                                         trade.price, trade.quantity),
                          Append(db, SaveTradeMsg(trade, order.user_id)),
                          order, Tail(new_trades))

\* if trades_history.len() > 5000 { trades_history.drain(0..len - 2000) }
TrimHistoryKeepsOldest(history) ==
    IF Len(history) > HighWaterMark
    THEN SubSeq(history, 1, LowWaterMark)
    ELSE history
TrimHistoryToHighWaterMark(history) ==
    IF Len(history) > HighWaterMark
    THEN SubSeq(history, Len(history) - HighWaterMark + 1, Len(history))
    ELSE history
TrimHistory(history) ==
    IF Len(history) > HighWaterMark
    THEN SubSeq(history, Len(history) - LowWaterMark + 1, Len(history))
    ELSE history

\* The PlaceOrder arm from the successful lock on: match, settle the taker,
\* tell the sink, extend the history, reply.
PlaceAcceptedSettlesAnyone(book, bal, history, db, order) ==
    LET r == process_order(book, order)
        t == SettleTrades(bal, db, order, r.trades)
    IN  [book |-> r.book, balances |-> t.balances,
         history |-> TrimHistory(history \o r.trades),
         db |-> t.db \o <<UpdateBalanceMsg(t.balances, order.user_id, USDC),
                          UpdateBalanceMsg(t.balances, order.user_id, BAD)>>,
         trades |-> r.trades, ok |-> TRUE]
PlaceAccepted(book, bal, history, db, order) ==
    LET r == process_order(book, order)
        s == IF order.user_id # NoUser
             THEN LET t == SettleTrades(bal, db, order, r.trades)
                  IN  [balances |-> t.balances,
                       db |-> t.db \o
                              <<UpdateBalanceMsg(t.balances, order.user_id, USDC),
                                UpdateBalanceMsg(t.balances, order.user_id, BAD)>>]
             ELSE [balances |-> bal, db |-> db]
    IN  [book |-> r.book, balances |-> s.balances,
         history |-> TrimHistory(history \o r.trades), db |-> s.db,
         trades |-> r.trades, ok |-> TRUE]

\* The rejection: `respond_to.send(vec![]); continue;`
PlaceRejectedSettles(book, bal, history, db, order) ==
    PlaceAccepted(book, bal, history, db, order)
PlaceRejected(book, bal, history, db, order) ==
    [book |-> book, balances |-> bal, history |-> history, db |-> db,
     trades |-> <<>>, ok |-> FALSE]

\* The PlaceOrder arm of run_matching_engine: the state after the message and
\* the trades replied
place_order(book, bal, history, db, order) ==
    IF order.user_id # NoUser
    THEN LET l == try_lock_balance(bal, order.user_id, order.side,
                                   order.price, order.quantity)
         IN  IF ~l.ok
             THEN PlaceRejected(book, l.balances, history, db, order)
             ELSE PlaceAccepted(book, l.balances, history,
                                Append(db, UpdateBalanceMsg(l.balances,
                                           order.user_id, LockAsset(order.side))),
                                order)
    ELSE PlaceAccepted(book, bal, history, db, order)

\* CancelOrder: the resting orders with this id and this owner, each as
\* <<side, price, position in the level>>
LevelsOf(book, side) == IF side = Buy THEN book.bids ELSE book.asks

RestingPlaces(book, order_id, user_id) ==
    {place \in UNION {UNION {{<<side, p, i>> :
                                 i \in 1 .. Len(LevelsOf(book, side)[p])} :
                             p \in DOMAIN LevelsOf(book, side)} :
                      side \in Side} :
        /\ LevelsOf(book, place[1])[place[2]][place[3]].id = order_id
        /\ LevelsOf(book, place[1])[place[2]][place[3]].user_id = user_id}

\* the level without the order at position i; an emptied level is dropped
RemoveAt(levels, p, i) ==
    DropIfEmpty(levels, p,
                SubSeq(levels[p], 1, i - 1) \o
                SubSeq(levels[p], i + 1, Len(levels[p])))

RemoveResting(book, place) ==
    IF place[1] = Buy
    THEN [book EXCEPT !.bids = RemoveAt(book.bids, place[2], place[3])]
    ELSE [book EXCEPT !.asks = RemoveAt(book.asks, place[2], place[3])]

\* the reservation of a removed order goes back from locked to available:
\* price * quantity of USDC for a buy, quantity of BAD for a sell
ReleaseKeepsLocked(bal, order) ==
    bal
Release(bal, order) ==
    LET asset == LockAsset(order.side)
        amount == AmountToLock(order.side, order.price, order.quantity)
        balance == AssetEntry(UserEntry(bal, order.user_id), asset)
    IN  WithBalance(bal, order.user_id, asset,
                    [available |-> balance.available + amount,
                     locked |-> balance.locked - amount])

\* no resting order has this id and this owner: nothing changes
CancelMissedRemoves(book, bal, db, order_id, user_id) ==
    [book |-> NewOrderBook, balances |-> bal, db |-> db, canceled |-> None]
CancelMissed(book, bal, db, order_id, user_id) ==
    [book |-> book, balances |-> bal, db |-> db, canceled |-> None]

\* the CancelOrder arm: the state after the message and the order replied
cancel_order(book, bal, db, order_id, user_id) ==
    IF RestingPlaces(book, order_id, user_id) = {}
    THEN CancelMissed(book, bal, db, order_id, user_id)
    ELSE LET place == CHOOSE x \in RestingPlaces(book, order_id, user_id) : TRUE
             order == LevelsOf(book, place[1])[place[2]][place[3]]
             released == Release(bal, order)
         IN  [book |-> RemoveResting(book, place),
              balances |-> released,
              db |-> Append(db, UpdateBalanceMsg(released, order.user_id,
                                                 LockAsset(order.side))),
              canceled |-> Some(order)]

\* db_tx.send(..).await: the handler is suspended while the channel is full;
\* db holds the intents it still has to send, reply the reply that follows
NoPending == [db |-> <<>>, reply |-> <<>>]

\* rx.recv(): the oldest message of the mailbox
RecvNewest(queue) ==
    [msg |-> queue[Len(queue)], rest |-> SubSeq(queue, 1, Len(queue) - 1)]
Recv(queue) == [msg |-> Head(queue), rest |-> Tail(queue)]

\* let _ = respond_to.send(value)
SendReplyTwice(sent_replies, reply) == sent_replies \o <<reply, reply>>
SendReply(sent_replies, reply) == Append(sent_replies, reply)

\* since_trim before any cut
NoTrim == -1

\* trades appended since the last cut, after a message that appended
\* new_trades to history
SinceTrim(since, history, new_trades) ==
    IF Len(history) + Len(new_trades) > HighWaterMark THEN 0
    ELSE IF since = NoTrim THEN NoTrim
    ELSE since + Len(new_trades)

-----------------------------------------------------------------------------
(* The surroundings of the actor as main() sets them up *)

\* create_order takes the id of an order from the wall clock,
\* SystemTime::now() in ms since the epoch, reduced modulo IdModulus; the
\* simulator counts up from SimulatorFirstId.
IdModulus == 10000000
SimulatorFirstId == 2000000

\* The clock is counted in ms from 1762370000000 ms after UNIX_EPOCH, a
\* multiple of IdModulus, so that as_millis() % IdModulus = now % IdModulus.
\* StartMillis is the clock when the gateway starts: 2025-11-05T19:46:40Z.
StartMillis == 2000000

\* now: the wall clock; id_counter: the simulator's counter; awaiting: the
\* GetOrderBook request whose reply the simulator waits for, 0 when it is not
\* waiting
NewGateway ==
    [now |-> StartMillis, id_counter |-> SimulatorFirstId, awaiting |-> 0]

\* db_rx: the receiver the sink holds; reply_rx: the requests whose caller has
\* dropped its one-shot receiver; senders: the mailbox senders taken together;
\* actor: whether run_matching_engine is still in its loop
NewLinks ==
    [db_rx |-> "held", reply_rx |-> {}, senders |-> "held", actor |-> "running"]

\* published: number of snapshots sent on the broadcast so far, snapshot k
\* being the k-th; senders: the broadcast senders alive, the one AppState
\* holds and the clone given to the engine; next: the snapshot the
\* subscriber's receiver is positioned at; forwarded: the snapshots written to
\* the web socket; lagged: the counts of the lag events seen; client: the far
\* end of the web socket; loop: handle_socket's loop and, once left, through
\* which break
NewSocket ==
    [published |-> 0, senders |-> 2, next |-> 1, forwarded |-> <<>>,
     lagged |-> <<>>, client |-> "connected", loop |-> "running"]

InitEnv ==
    /\ gateway = NewGateway
    /\ links = NewLinks
    /\ socket = NewSocket

-----------------------------------------------------------------------------
(* The record of the last operation *)

\* op: the operation; order: its argument; book, balances, history, db: the
\* state it was applied to; trades, ok: what it returned
NoCall ==
    [op |-> "none", order |-> NoOrder, book |-> NewOrderBook,
     balances |-> NewAccountManager, history |-> <<>>, db |-> <<>>,
     trades |-> <<>>, ok |-> TRUE, canceled |-> None, emitted |-> <<>>]

\* Order ids are names: the code only compares them for equality.  An order
\* carries either an id already handed out (the gateway's
\* `millis % 10000000` repeats) or the next unused one.
OrderIds == 1 .. (issued + 1)

IssuedAfter(id) == IF id > issued THEN id ELSE issued

\* The orders a caller can pass to process_order
BookOrders ==
    {Order(id, p, q, s, NoUser, Limit) :
        id \in OrderIds, p \in Prices, q \in Quantities, s \in Side}
    \cup
    {Order(id, p, q, s, NoUser, Market) :
        id \in OrderIds, p \in MarketPrices, q \in Quantities, s \in Side}

-----------------------------------------------------------------------------
(* SpecBook: the order book driven directly, as in tests/orderbook_test.rs *)

InitCommon ==
    /\ orderbook = NewOrderBook
    /\ balances = NewAccountManager
    /\ trades_history = <<>>
    /\ mailbox = <<>>
    /\ db_tx = <<>>
    /\ db_taken = 0
    /\ pending = NoPending
    /\ replies = <<>>
    /\ handled = <<>>
    /\ since_trim = NoTrim
    /\ issued = 0
    /\ sent = 0
    /\ call = NoCall
    /\ InitEnv

InitBook == InitCommon

ProcessOrder(order) ==
    /\ sent < MaxCalls
    /\ \E r \in {process_order(orderbook, order)} :
           /\ orderbook' = r.book
           /\ call' = [NoCall EXCEPT !.op = "process_order", !.order = order,
                                     !.book = orderbook, !.trades = r.trades]
    /\ issued' = IssuedAfter(order.id)
    /\ sent' = sent + 1
    /\ UNCHANGED <<balances, trades_history, mailbox, db_tx, db_taken, pending,
                   replies, handled, since_trim, env_vars>>

NextBook == \E order \in BookOrders : ProcessOrder(order)

SpecBook == InitBook /\ [][NextBook]_vars

-----------------------------------------------------------------------------
(* SpecAccount: the ledger driven directly, as in tests/account_test.rs *)

InitAccount == InitCommon

\* the (user, side, price, quantity) arguments of a ledger call
AccountArgs ==
    {Order(0, p, q, s, u, Limit) :
        p \in AccountPrices, q \in AccountQuantities, s \in Side, u \in Users}

\* In SpecAccount `handled` lists the (user, asset) pairs written so far by
\* load_balance or by on_trade_match, which writes both assets of its user.
LoadBalance(user_id, asset, available) ==
    /\ sent < MaxAccountCalls
    /\ balances' = load_balance(balances, user_id, asset, available, 0)
    /\ call' = [NoCall EXCEPT !.op = "load_balance", !.balances = balances]
    /\ sent' = sent + 1
    /\ handled' = Append(handled, <<user_id, asset>>)
    /\ UNCHANGED <<orderbook, trades_history, mailbox, db_tx, db_taken, pending,
                   replies, since_trim, issued, env_vars>>

TryLockBalance(a) ==
    /\ sent < MaxAccountCalls
    /\ \E r \in {try_lock_balance(balances, a.user_id, a.side, a.price,
                                   a.quantity)} :
           /\ balances' = r.balances
           /\ call' = [NoCall EXCEPT !.op = "try_lock_balance", !.order = a,
                                     !.balances = balances, !.ok = r.ok]
    /\ sent' = sent + 1
    /\ UNCHANGED <<orderbook, trades_history, mailbox, db_tx, db_taken, pending,
                   replies, handled, since_trim, issued, env_vars>>

OnTradeMatch(a) ==
    /\ sent < MaxAccountCalls
    /\ balances' = on_trade_match(balances, a.user_id, a.side, a.price, a.quantity)
    /\ call' = [NoCall EXCEPT !.op = "on_trade_match", !.order = a,
                              !.balances = balances]
    /\ sent' = sent + 1
    /\ handled' = handled \o <<<<a.user_id, USDC>>, <<a.user_id, BAD>>>>
    /\ UNCHANGED <<orderbook, trades_history, mailbox, db_tx, db_taken, pending,
                   replies, since_trim, issued, env_vars>>

NextAccount ==
    \/ \E u \in Users, asset \in Assets, v \in LoadAmounts : LoadBalance(u, asset, v)
    \/ \E a \in AccountArgs : TryLockBalance(a)
    \/ \E a \in AccountArgs : OnTradeMatch(a)

SpecAccount == InitAccount /\ [][NextAccount]_vars

-----------------------------------------------------------------------------
(* Spec: the engine actor fed through its mailbox *)

\* the ledger main() loads before it starts the actor
LoadedLedger ==
    load_balance(load_balance(NewAccountManager, "u1", USDC, 1000, 0),
                 "u2", BAD, 10, 0)

Init ==
    /\ orderbook = NewOrderBook
    /\ balances = LoadedLedger
    /\ trades_history = <<>>
    /\ mailbox = <<>>
    /\ db_tx = <<>>
    /\ db_taken = 0
    /\ pending = NoPending
    /\ replies = <<>>
    /\ handled = <<>>
    /\ since_trim = NoTrim
    /\ issued = 0
    /\ sent = 0
    /\ call = NoCall
    /\ InitEnv

\* The orders the gateway (owner "u1", limit or market) and the simulator (no
\* owner, limit only) submit.  Each order sent to the actor carries an unused
\* id here.
EngineOrders ==
    {Order(issued + 1, pq[1], pq[2], s, "u1", Limit) :
        pq \in EngineLimits, s \in Side}
    \cup
    {Order(issued + 1, pq[1], pq[2], s, NoUser, Limit) :
        pq \in SimulatorLimits, s \in Side}
    \cup
    {Order(issued + 1, p, q, s, "u1", Market) :
        p \in EngineMarketPrices, q \in EngineMarketQuantities, s \in Side}

\* the actor's variables: what a sender does not touch
actor_vars == <<orderbook, balances, trades_history, db_tx, db_taken, pending,
                replies, handled, since_trim, call>>

\* sender.send(EngineMessage::PlaceOrder { order, respond_to })
SendPlaceOrder(order) ==
    /\ links.senders = "held"
    /\ sent < MaxMsgs
    /\ mailbox' = Append(mailbox, PlaceOrderMsg(order, sent + 1))
    /\ issued' = IssuedAfter(order.id)
    /\ sent' = sent + 1
    /\ UNCHANGED <<actor_vars, env_vars>>

\* sender.send(EngineMessage::GetOrderBook { respond_to })
SendGetOrderBook ==
    /\ links.senders = "held"
    /\ sent < MaxMsgs
    /\ mailbox' = Append(mailbox, GetOrderBookMsg(sent + 1))
    /\ sent' = sent + 1
    /\ UNCHANGED <<actor_vars, issued, env_vars>>

\* sender.send(EngineMessage::GetTrades { respond_to })
SendGetTrades ==
    /\ links.senders = "held"
    /\ sent < MaxMsgs
    /\ mailbox' = Append(mailbox, GetTradesMsg(sent + 1))
    /\ sent' = sent + 1
    /\ UNCHANGED <<actor_vars, issued, env_vars>>

\* sender.send(EngineMessage::CancelOrder { order_id, user_id, respond_to })
SendCancelOrder(order_id, user_id) ==
    /\ links.senders = "held"
    /\ sent < MaxMsgs
    /\ mailbox' = Append(mailbox, CancelOrderMsg(order_id, user_id, sent + 1))
    /\ sent' = sent + 1
    /\ UNCHANGED <<actor_vars, issued, env_vars>>

\* `let _ = db_tx.send(..).await`, `let _ = respond_to.send(..)`: the Result
\* of a send is thrown away, the actor goes on whether it was Ok or Err
AfterSendUnwrapped(actor, sent_ok) == IF sent_ok THEN actor ELSE "ended"
AfterSend(actor, sent_ok) == actor

\* respond_to.send(reply) at the end of an arm whose sends to the sink went
\* as sink_ok tells: the value reaches the caller unless the caller has
\* dropped its receiver
Respond(reply, sink_ok) ==
    /\ replies' = IF reply.respond_to \in links.reply_rx
                  THEN replies
                  ELSE SendReply(replies, reply)
    /\ links' = [links EXCEPT
                     !.actor = AfterSend(AfterSend(@, sink_ok),
                                         reply.respond_to \notin links.reply_rx)]

Before(op, order) ==
    [NoCall EXCEPT !.op = op, !.order = order, !.book = orderbook,
                   !.balances = balances, !.history = trades_history,
                   !.db = db_tx]

\* The intents of one message go out one after the other through
\* db_tx.send(..).await and the reply follows the last of them.  Those that
\* find room in the channel are queued at once; with the channel full the
\* handler is suspended with the rest.
\* With the sink's receiver dropped every db_tx.send(..).await returns Err at
\* once and the intent is lost.
Deliver(intents, reply) ==
    IF links.db_rx = "dropped"
    THEN /\ db_tx' = db_tx
         /\ pending' = NoPending
         /\ Respond(reply, intents = <<>>)
    ELSE \E n \in {IF Len(intents) <= DbCapacity - (Len(db_tx) - db_taken)
                   THEN Len(intents)
                   ELSE DbCapacity - (Len(db_tx) - db_taken)} :
             /\ db_tx' = db_tx \o SubSeq(intents, 1, n)
             /\ IF n = Len(intents)
                THEN /\ Respond(reply, TRUE)
                     /\ pending' = NoPending
                ELSE /\ replies' = replies
                     /\ links' = links
                     /\ pending' = [db |-> SubSeq(intents, n + 1, Len(intents)),
                                    reply |-> <<reply>>]

\* rx.recv() yields EngineMessage::PlaceOrder
HandlePlaceOrder ==
    /\ links.actor = "running"
    /\ pending = NoPending
    /\ mailbox # <<>>
    /\ Recv(mailbox).msg.type = "PlaceOrder"
    /\ \E m \in {Recv(mailbox)} :
           /\ mailbox' = m.rest
           /\ handled' = Append(handled, m.msg)
           /\ \E r \in {place_order(orderbook, balances, trades_history,
                                     db_tx, m.msg.order)} :
              \E emitted \in {SubSeq(r.db, Len(db_tx) + 1, Len(r.db))} :
                  /\ orderbook' = r.book
                  /\ balances' = r.balances
                  /\ trades_history' = r.history
                  /\ since_trim' = SinceTrim(since_trim, trades_history,
                                             r.trades)
                  /\ Deliver(emitted, Reply(m.msg.respond_to, r.trades))
                  /\ call' = [Before("PlaceOrder", m.msg.order) EXCEPT
                                  !.trades = r.trades, !.ok = r.ok,
                                  !.emitted = emitted]
    /\ UNCHANGED <<db_taken, issued, sent, gateway, socket>>

\* rx.recv() yields EngineMessage::CancelOrder
HandleCancelOrder ==
    /\ links.actor = "running"
    /\ pending = NoPending
    /\ mailbox # <<>>
    /\ Recv(mailbox).msg.type = "CancelOrder"
    /\ \E m \in {Recv(mailbox)} :
       \E r \in {cancel_order(orderbook, balances, db_tx, m.msg.order.id,
                              m.msg.order.user_id)} :
       \E emitted \in {SubSeq(r.db, Len(db_tx) + 1, Len(r.db))} :
           /\ orderbook' = r.book
           /\ balances' = r.balances
           /\ trades_history' = TrimHistory(trades_history)
           /\ since_trim' = SinceTrim(since_trim, trades_history, <<>>)
           /\ Deliver(emitted, Reply(m.msg.respond_to, r.canceled))
           /\ call' = [Before("CancelOrder", m.msg.order) EXCEPT
                           !.canceled = r.canceled, !.emitted = emitted]
           /\ mailbox' = m.rest
           /\ handled' = Append(handled, m.msg)
    /\ UNCHANGED <<db_taken, issued, sent, gateway, socket>>

\* rx.recv() yields EngineMessage::GetOrderBook
HandleGetOrderBook ==
    /\ links.actor = "running"
    /\ pending = NoPending
    /\ mailbox # <<>>
    /\ Recv(mailbox).msg.type = "GetOrderBook"
    /\ \E m \in {Recv(mailbox)} :
           /\ Respond(ClonedReply(m.msg.respond_to, orderbook), TRUE)
           /\ mailbox' = m.rest
           /\ handled' = Append(handled, m.msg)
    /\ trades_history' = TrimHistory(trades_history)
    /\ since_trim' = SinceTrim(since_trim, trades_history, <<>>)
    /\ call' = Before("GetOrderBook", NoOrder)
    /\ UNCHANGED <<orderbook, balances, db_tx, db_taken, pending, issued, sent,
                   gateway, socket>>

\* a GetTrades arm that hands the history over instead of a clone of it
\* (what C38 rules out)
HandleGetTradesTakes ==
    /\ links.actor = "running"
    /\ pending = NoPending
    /\ mailbox # <<>>
    /\ Recv(mailbox).msg.type = "GetTrades"
    /\ \E m \in {Recv(mailbox)} :
           /\ Respond(ClonedReply(m.msg.respond_to, trades_history), TRUE)
           /\ mailbox' = m.rest
           /\ handled' = Append(handled, m.msg)
    /\ trades_history' = <<>>
    /\ since_trim' = SinceTrim(since_trim, trades_history, <<>>)
    /\ call' = Before("GetTrades", NoOrder)
    /\ UNCHANGED <<orderbook, balances, db_tx, db_taken, pending, issued, sent,
                   gateway, socket>>

\* rx.recv() yields EngineMessage::GetTrades
HandleGetTrades ==
    /\ links.actor = "running"
    /\ pending = NoPending
    /\ mailbox # <<>>
    /\ Recv(mailbox).msg.type = "GetTrades"
    /\ \E m \in {Recv(mailbox)} :
           /\ Respond(ClonedReply(m.msg.respond_to, trades_history), TRUE)
           /\ mailbox' = m.rest
           /\ handled' = Append(handled, m.msg)
    /\ trades_history' = TrimHistory(trades_history)
    /\ since_trim' = SinceTrim(since_trim, trades_history, <<>>)
    /\ call' = Before("GetTrades", NoOrder)
    /\ UNCHANGED <<orderbook, balances, db_tx, db_taken, pending, issued, sent,
                   gateway, socket>>

\* the sink has made room, or has dropped its receiver: the suspended
\* db_tx.send(..).await completes and the handler goes on
ResumeSend ==
    /\ links.actor = "running"
    /\ pending # NoPending
    /\ Len(db_tx) - db_taken < DbCapacity \/ links.db_rx = "dropped"
    /\ Deliver(pending.db, pending.reply[1])
    /\ UNCHANGED <<orderbook, balances, trades_history, mailbox, db_taken,
                   handled, since_trim, issued, sent, call, gateway, socket>>

\* the persistence sink receives the oldest intent of the channel
DbWriterRecv ==
    /\ links.db_rx = "held"
    /\ db_taken < Len(db_tx)
    /\ db_taken' = db_taken + 1
    /\ UNCHANGED <<orderbook, balances, trades_history, mailbox, db_tx, pending,
                   replies, handled, since_trim, issued, sent, call, env_vars>>

\* the ids (those handed out so far) and the callers of the cancel requests
CancelIds == 1 .. issued
CancelUsers == {"u1", "u2"}

Next ==
    \/ \E order \in EngineOrders : SendPlaceOrder(order)
    \/ SendGetOrderBook
    \/ SendGetTrades
    \/ \E order_id \in CancelIds, user_id \in CancelUsers :
           SendCancelOrder(order_id, user_id)
    \/ HandlePlaceOrder
    \/ HandleCancelOrder
    \/ HandleGetOrderBook
    \/ HandleGetTrades
    \/ ResumeSend
    \/ DbWriterRecv

Spec == Init /\ [][Next]_vars

-----------------------------------------------------------------------------
(* Properties of process_order, stated on the last call: call.book is the   *)
(* book it was applied to, orderbook the book it left, call.trades its       *)
(* result.                                                                   *)

IsBookCall == call.op = "process_order"

\* the side the taker matches against, and the side it rests on
OppositeOf(book, order) == IF order.side = Buy THEN book.asks ELSE book.bids
OwnOf(book, order) == IF order.side = Buy THEN book.bids ELSE book.asks

\* The resting orders of the side a taker matches against, in price-time
\* priority: best level first (lowest for a Buy taker, highest for a Sell
\* taker), oldest first within a level; each with the price of its level.
RECURSIVE PriorityOrder(_, _)
PriorityOrder(levels, taker_side) ==
    IF DOMAIN levels = {}
    THEN <<>>
    ELSE LET p == IF taker_side = Buy THEN SetMin(DOMAIN levels)
                  ELSE SetMax(DOMAIN levels)
         IN  [i \in 1 .. Len(levels[p]) |-> [price |-> p, order |-> levels[p][i]]]
             \o PriorityOrder(MapRemove(levels, p), taker_side)

RECURSIVE SumQuantity(_)
SumQuantity(trades) ==
    IF trades = <<>> THEN 0 ELSE Head(trades).quantity + SumQuantity(Tail(trades))

\* every order resting on either side of a book
RestingOrders(book) ==
    UNION {{book.bids[p][i] : i \in 1 .. Len(book.bids[p])} : p \in DOMAIN book.bids}
    \cup
    UNION {{book.asks[p][i] : i \in 1 .. Len(book.asks[p])} : p \in DOMAIN book.asks}

\* C1: price-time priority.  The trades of one process_order call follow the
\* opposite side's priority order position by position: trade i is with the
\* i-th resting order (best price first, oldest first within a level), at
\* that order's level, and every maker but the last one traded with was
\* consumed whole before the next one was touched - one trade per maker.
C1_PriceTimePriority ==
    IsBookCall =>
        LET flat == PriorityOrder(OppositeOf(call.book, call.order),
                                  call.order.side)
            n == Len(call.trades)
        IN  /\ n <= Len(flat)
            /\ \A i \in 1 .. n :
                   /\ call.trades[i].maker_id = flat[i].order.id
                   /\ call.trades[i].taker_id = call.order.id
                   /\ call.trades[i].price = flat[i].price
            /\ \A i \in 1 .. n - 1 :
                   call.trades[i].quantity = flat[i].order.quantity

\* tests/orderbook_test.rs test_price_time_priority: sells 10@100 (id 1) and
\* 10@100 (id 2), then a buy 15@100 trades with 1 first, then with 2
C1_Witness ==
    /\ IsBookCall
    /\ call.book = [bids |-> <<>>,
                    asks |-> 100 :> <<Order(1, 100, 10, Sell, NoUser, Limit),
                                      Order(2, 100, 10, Sell, NoUser, Limit)>>]
    /\ call.order = Order(3, 100, 15, Buy, NoUser, Limit)
    /\ call.trades = <<Trade(1, 3, 100, 10), Trade(2, 3, 100, 5)>>
    /\ orderbook.asks = 100 :> <<Order(2, 100, 5, Sell, NoUser, Limit)>>

\* C2: maker-price execution.  Every trade carries the price of the level
\* its maker rested at (a level of the opposite side before the call that
\* held an order with the trade's maker id), never the taker's price unless
\* the two are equal; a resting sell 10@90 hit by a limit buy 10@100 gives
\* exactly one trade, at 90, and leaves both sides empty.
C2_MakerPrice ==
    IsBookCall =>
        LET opp == OppositeOf(call.book, call.order)
            flat == PriorityOrder(opp, call.order.side)
        IN  /\ \A i \in 1 .. Len(call.trades) :
                   LET t == call.trades[i]
                   IN  /\ t.price \in DOMAIN opp
                       /\ \E k \in 1 .. Len(opp[t.price]) :
                              opp[t.price][k].id = t.maker_id
                       /\ i <= Len(flat) /\ t.price = flat[i].price
            /\ ( /\ call.book.bids = <<>>
                 /\ DOMAIN call.book.asks = {90}
                 /\ Len(call.book.asks[90]) = 1
                 /\ call.book.asks[90][1].quantity = 10
                 /\ call.order.side = Buy
                 /\ call.order.order_type = Limit
                 /\ call.order.price = 100
                 /\ call.order.quantity = 10 )
               => /\ Len(call.trades) = 1
                  /\ call.trades[1].price = 90
                  /\ call.trades[1].quantity = 10
                  /\ orderbook = NewOrderBook

\* tests/orderbook_test.rs test_match_better_price
C2_Witness ==
    /\ IsBookCall
    /\ call.book = [bids |-> <<>>,
                    asks |-> 90 :> <<Order(1, 90, 10, Sell, NoUser, Limit)>>]
    /\ call.order = Order(2, 100, 10, Buy, NoUser, Limit)
    /\ call.trades = <<Trade(1, 2, 90, 10)>>
    /\ orderbook = NewOrderBook

\* C6: FIFO under partial fill.  When the last maker a taker traded with was
\* only partly filled, that maker is still the head of its level with its
\* quantity reduced by the fill, and the orders that were behind it follow
\* in the same order, each exactly as it was.
C6_FifoUnderPartialFill ==
    IsBookCall /\ call.trades # <<>> =>
        LET opp == OppositeOf(call.book, call.order)
            flat == PriorityOrder(opp, call.order.side)
            n == Len(call.trades)
            last == call.trades[n]
            level == opp[last.price]
            \* the makers of that level consumed whole before the last one
            gone == Cardinality({i \in 1 .. n - 1 :
                                     call.trades[i].price = last.price})
            maker == level[gone + 1]
        IN  last.quantity < maker.quantity =>
                /\ last.price \in DOMAIN OppositeOf(orderbook, call.order)
                /\ OppositeOf(orderbook, call.order)[last.price] =
                       <<[maker EXCEPT !.quantity = @ - last.quantity]>>
                       \o SubSeq(level, gone + 2, Len(level))

\* sells 15@100 (id 1) and 10@100 (id 2), then a buy 10@100: order 1 stays
\* first with 5 left, order 2 stays behind it untouched
C6_Witness ==
    /\ IsBookCall
    /\ call.book = [bids |-> <<>>,
                    asks |-> 100 :> <<Order(1, 100, 15, Sell, NoUser, Limit),
                                      Order(2, 100, 10, Sell, NoUser, Limit)>>]
    /\ call.order = Order(3, 100, 10, Buy, NoUser, Limit)
    /\ call.trades = <<Trade(1, 3, 100, 10)>>
    /\ orderbook.asks = 100 :> <<Order(1, 100, 5, Sell, NoUser, Limit),
                                 Order(2, 100, 10, Sell, NoUser, Limit)>>

\* C3: a market order matches the best opposite level whatever its own price
\* field holds, and sweeps level after level until its quantity is used up
\* or the opposite side is empty.  With asks 10@100 (id 1) and 10@101 (id 2)
\* a market buy of 15 trades 10@100 with 1, then 5@101 with 2, and leaves
\* only 5@101 on the ask side.
C3_MarketSweeps ==
    IsBookCall /\ call.order.order_type = Market =>
        LET flat == PriorityOrder(OppositeOf(call.book, call.order),
                                  call.order.side)
        IN  /\ (call.order.quantity > 0 /\ flat # <<>>) =>
                   /\ call.trades # <<>>
                   /\ call.trades[1].price = flat[1].price
            /\ \/ SumQuantity(call.trades) = call.order.quantity
               \/ DOMAIN OppositeOf(orderbook, call.order) = {}
            /\ ( /\ call.order.side = Buy
                 /\ call.order.quantity = 15
                 /\ call.book.asks =
                        (100 :> <<Order(1, 100, 10, Sell, NoUser, Limit)>>) @@
                        (101 :> <<Order(2, 101, 10, Sell, NoUser, Limit)>>) )
               => /\ call.trades = <<Trade(1, call.order.id, 100, 10),
                                     Trade(2, call.order.id, 101, 5)>>
                  /\ orderbook.asks =
                         101 :> <<Order(2, 101, 5, Sell, NoUser, Limit)>>

\* tests/market_order_test.rs test_market_buy_fills_multiple_levels
C3_Witness ==
    /\ IsBookCall
    /\ call.book = [bids |-> <<>>,
                    asks |-> (100 :> <<Order(1, 100, 10, Sell, NoUser, Limit)>>) @@
                             (101 :> <<Order(2, 101, 10, Sell, NoUser, Limit)>>)]
    /\ call.order = Order(3, 0, 15, Buy, NoUser, Market)
    /\ call.trades = <<Trade(1, 3, 100, 10), Trade(2, 3, 101, 5)>>
    /\ orderbook = [bids |-> <<>>,
                    asks |-> 101 :> <<Order(2, 101, 5, Sell, NoUser, Limit)>>]

\* C4: market orders never rest.  After process_order of a market order no
\* order with that order's id is on either side of the book; a market buy
\* into an empty book gives no trades and leaves both sides empty.
C4_MarketNeverRests ==
    IsBookCall /\ call.order.order_type = Market =>
        /\ \A o \in RestingOrders(orderbook) : o.id # call.order.id
        /\ (call.book = NewOrderBook /\ call.order.side = Buy) =>
               (call.trades = <<>> /\ orderbook = NewOrderBook)

\* the places (price, position) on a side where an order with this id rests
PlacesOf(levels, id) ==
    {pi \in UNION {{<<p, i>> : i \in 1 .. Len(levels[p])} : p \in DOMAIN levels} :
        levels[pi[1]][pi[2]].id = id}

\* C5: a limit order's remainder rests.  With Q the order's quantity and T
\* the total of the returned trades: if T < Q exactly one order with the
\* taker's id rests on the taker's own side, at the taker's price, with
\* quantity Q - T, as the last of that level's queue; if T = Q no order with
\* the taker's id rests.
C5_LimitRemainderRests ==
    IsBookCall /\ call.order.order_type = Limit =>
        LET Q == call.order.quantity
            T == SumQuantity(call.trades)
            own == OwnOf(orderbook, call.order)
            p == call.order.price
        IN  IF T < Q
            THEN /\ p \in DOMAIN own
                 /\ own[p][Len(own[p])] = [call.order EXCEPT !.quantity = Q - T]
                 /\ PlacesOf(own, call.order.id) = {<<p, Len(own[p])>>}
            ELSE \A o \in RestingOrders(orderbook) : o.id # call.order.id

-----------------------------------------------------------------------------
(* Properties of the ledger, stated on the last call: call.balances is the   *)
(* ledger it was applied to, balances the ledger it left.                    *)

Pairs == Users \X Assets

AvailableOf(bal, user_id, asset) == get_balance(bal, user_id, asset)[1]
LockedOf(bal, user_id, asset) == get_balance(bal, user_id, asset)[2]

\* what try_lock_balance has to find available for the call's arguments
Required(a) == IF a.side = Buy THEN a.price * a.quantity ELSE a.quantity
Committed(a) == IF a.side = Buy THEN USDC ELSE BAD

\* C7: try_lock succeeds when the committed asset's available balance covers
\* the required amount (price * quantity of USDC for a Buy, quantity of BAD
\* for a Sell): it returns Ok, available falls and locked rises by exactly
\* that amount, their sum stays, and no other (user, asset) pair changes.
C7_TryLockSuccess ==
    LET a == call.order
        u == a.user_id
        asset == Committed(a)
    IN  ( /\ call.op = "try_lock_balance"
          /\ AvailableOf(call.balances, u, asset) >= Required(a) )
        => /\ call.ok
           /\ AvailableOf(balances, u, asset) =
                  AvailableOf(call.balances, u, asset) - Required(a)
           /\ LockedOf(balances, u, asset) =
                  LockedOf(call.balances, u, asset) + Required(a)
           /\ AvailableOf(balances, u, asset) + LockedOf(balances, u, asset) =
                  AvailableOf(call.balances, u, asset)
                  + LockedOf(call.balances, u, asset)
           /\ \A pair \in Pairs \ {<<u, asset>>} :
                  get_balance(balances, pair[1], pair[2]) =
                  get_balance(call.balances, pair[1], pair[2])

\* tests/account_test.rs test_try_lock_balance_buy, scaled to the loaded
\* amount: 1000 USDC, buy 10 at 50 locks 500
C7_Witness ==
    /\ call.op = "try_lock_balance"
    /\ call.order.side = Buy /\ call.order.price = 50
    /\ call.order.quantity = 10
    /\ get_balance(call.balances, call.order.user_id, USDC) = <<1000, 0>>
    /\ call.ok
    /\ get_balance(balances, call.order.user_id, USDC) = <<500, 500>>

\* C8: a failed try_lock changes nothing.  When available < required the call
\* returns an error and get_balance answers for every (user, asset) pair
\* what it answered before.
C8_TryLockFailure ==
    LET a == call.order
    IN  ( /\ call.op = "try_lock_balance"
          /\ AvailableOf(call.balances, a.user_id, Committed(a)) < Required(a) )
        => /\ ~call.ok
           /\ \A pair \in Pairs :
                  get_balance(balances, pair[1], pair[2]) =
                  get_balance(call.balances, pair[1], pair[2])

\* tests/account_test.rs test_try_lock_balance_buy_insufficient: 20 USDC
\* cannot cover a buy of 10 at 50
C8_Witness ==
    /\ call.op = "try_lock_balance"
    /\ call.order.side = Buy /\ call.order.price = 50
    /\ call.order.quantity = 10
    /\ get_balance(call.balances, call.order.user_id, USDC) = <<20, 0>>
    /\ ~call.ok
    /\ get_balance(balances, call.order.user_id, USDC) = <<20, 0>>

\* C9: settlement of a fill of quantity q at trade price p.  A Buy lowers
\* locked USDC by p*q and raises available BAD by q; a Sell lowers locked BAD
\* by q and raises available USDC by p*q; available of the committed asset
\* and locked of the received asset stay.
C9_Settle ==
    LET a == call.order
        u == a.user_id
        v == a.price * a.quantity
        given == Committed(a)
        got == IF a.side = Buy THEN BAD ELSE USDC
    IN  call.op = "on_trade_match" =>
            /\ LockedOf(balances, u, given) =
                   LockedOf(call.balances, u, given)
                   - (IF a.side = Buy THEN v ELSE a.quantity)
            /\ AvailableOf(balances, u, got) =
                   AvailableOf(call.balances, u, got)
                   + (IF a.side = Buy THEN a.quantity ELSE v)
            /\ AvailableOf(balances, u, given) =
                   AvailableOf(call.balances, u, given)
            /\ LockedOf(balances, u, got) = LockedOf(call.balances, u, got)

\* tests/account_test.rs test_on_trade_match_buy: USDC (500, 500), a buy of
\* 10 filled at 50 leaves USDC (500, 0) and BAD (10, 0)
C9_Witness ==
    /\ call.op = "on_trade_match"
    /\ call.order.side = Buy /\ call.order.price = 50
    /\ call.order.quantity = 10
    /\ get_balance(call.balances, call.order.user_id, USDC) = <<500, 500>>
    /\ get_balance(call.balances, call.order.user_id, BAD) = <<0, 0>>
    /\ get_balance(balances, call.order.user_id, USDC) = <<500, 0>>
    /\ get_balance(balances, call.order.user_id, BAD) = <<10, 0>>

-----------------------------------------------------------------------------
(* Properties of the engine actor, stated on the last message handled: call  *)
(* holds the message's order and the actor's state before it.                *)

\* the owned PlaceOrder just handled could not be covered by its owner
LockFailed ==
    /\ call.op = "PlaceOrder"
    /\ call.order.user_id # NoUser
    /\ AvailableOf(call.balances, call.order.user_id, Committed(call.order))
           < Required(call.order)

\* C10: a PlaceOrder refused for insufficient funds is a no-op.  The reply is
\* the empty trade list, and the book, every balance, the trade history and
\* the stream of persistence intents are what they were before the message.
C10_RejectionIsNoOp ==
    LockFailed =>
        /\ replies # <<>>
        /\ replies[Len(replies)].value = <<>>
        /\ orderbook = call.book
        /\ \A pair \in Pairs :
               get_balance(balances, pair[1], pair[2]) =
               get_balance(call.balances, pair[1], pair[2])
        /\ trades_history = call.history
        /\ db_tx = call.db

\* an owned buy that would have matched a resting sell is refused: u1 holds
\* 1000 USDC, the order needs 1010
C10_Witness ==
    /\ LockFailed
    /\ call.order.side = Buy
    /\ call.order.price = 101 /\ call.order.quantity = 10
    /\ DOMAIN call.book.asks # {}
    /\ SetMin(DOMAIN call.book.asks) <= 101
    /\ call.db # <<>>
    /\ orderbook = call.book


-----------------------------------------------------------------------------
(* Properties of the ledger as the engine actor drives it *)

\* available + locked of one (user, asset) pair
TotalOf(bal, user_id, asset) ==
    get_balance(bal, user_id, asset)[1] + get_balance(bal, user_id, asset)[2]

\* sum of price * quantity over a trade list
RECURSIVE SumValue(_)
SumValue(trades) ==
    IF trades = <<>> THEN 0
    ELSE Head(trades).price * Head(trades).quantity + SumValue(Tail(trades))

\* what the taker of these trades receives (positive) or pays (negative) of
\* the asset
NetSettled(side, trades, asset) ==
    IF side = Buy
    THEN IF asset = USDC THEN 0 - SumValue(trades) ELSE SumQuantity(trades)
    ELSE IF asset = USDC THEN SumValue(trades) ELSE 0 - SumQuantity(trades)

\* Every message moves each total by exactly the net amount settled for that
\* user in the message's trades: nothing for a cancel, a read, another user
TotalsFollowTrades ==
    call.op # "none" =>
    \A pair \in Pairs :
        TotalOf(balances, pair[1], pair[2]) =
            TotalOf(call.balances, pair[1], pair[2]) +
            (IF call.op = "PlaceOrder" /\ call.order.user_id = pair[1]
             THEN NetSettled(call.order.side, call.trades, pair[2])
             ELSE 0)

TotalsNonNegative ==
    \A pair \in Pairs : TotalOf(balances, pair[1], pair[2]) >= 0

\* C11: conservation.  After any sequence of PlaceOrder and CancelOrder
\* messages available + locked of every (user, asset) pair is its initial
\* total plus the net amount settled for that user (message by message: the
\* total before plus the net of the message's trades), and is never negative.
C11_Conservation ==
    (call.op \in {"PlaceOrder", "CancelOrder"}) =>
        /\ TotalsFollowTrades
        /\ TotalsNonNegative

-----------------------------------------------------------------------------
(* Properties of CancelOrder, stated on the last message handled: call.order *)
(* carries the requested id and the caller.                                  *)

\* the reply to the message just handled: sent, or held back with the
\* handler suspended on the sink's channel
LastReply ==
    IF pending # NoPending THEN pending.reply[1] ELSE replies[Len(replies)]

\* the orders resting in a book that carry the id and the owner of the cancel
\* request just handled
Requested(book) ==
    {o \in RestingOrders(book) :
        o.id = call.order.id /\ o.user_id = call.order.user_id}

\* a side's resting orders in priority order, without the given order
RECURSIVE Without(_, _)
Without(orders, order) ==
    IF orders = <<>> THEN <<>>
    ELSE IF Head(orders).order = order THEN Without(Tail(orders), order)
    ELSE <<Head(orders)>> \o Without(Tail(orders), order)

\* C12: cancelling a still-resting order by its owner removes it from the
\* book and leaves every other resting order in place, returns the removed
\* order in the reply, moves the order's reservation (price * quantity of
\* USDC for a buy, quantity of BAD for a sell) back from locked to available
\* with no other balance touched, and emits one UpdateBalance intent carrying
\* the restored balances.
C12_CancelRestoresReservation ==
    (call.op = "CancelOrder" /\ Requested(call.book) # {}) =>
        \E o \in Requested(call.book) :
            LET asset == Committed(o)
                amount == Required(o)
            IN  /\ LastReply.value = Some(o)
                /\ Requested(orderbook) = {}
                /\ PriorityOrder(orderbook.bids, Sell) =
                       Without(PriorityOrder(call.book.bids, Sell), o)
                /\ PriorityOrder(orderbook.asks, Buy) =
                       Without(PriorityOrder(call.book.asks, Buy), o)
                /\ AvailableOf(balances, o.user_id, asset) =
                       AvailableOf(call.balances, o.user_id, asset) + amount
                /\ LockedOf(balances, o.user_id, asset) =
                       LockedOf(call.balances, o.user_id, asset) - amount
                /\ \A pair \in Pairs \ {<<o.user_id, asset>>} :
                       get_balance(balances, pair[1], pair[2]) =
                       get_balance(call.balances, pair[1], pair[2])
                /\ call.emitted =
                       <<[type |-> "UpdateBalance", user_id |-> o.user_id,
                          asset |-> asset,
                          available |-> AvailableOf(balances, o.user_id, asset),
                          locked |-> LockedOf(balances, o.user_id, asset)]>>

\* u1 holds 1000 USDC, its buy 5 @ 100 rests with 500 locked; u1 cancels it:
\* the book is empty again, available 1000, locked 0, and the intent says so
C12_Witness ==
    /\ call.op = "CancelOrder"
    /\ call.order.user_id = "u1"
    /\ Requested(call.book) =
           {Order(call.order.id, 100, 5, Buy, "u1", Limit)}
    /\ get_balance(call.balances, "u1", USDC) = <<500, 500>>
    /\ get_balance(balances, "u1", USDC) = <<1000, 0>>
    /\ orderbook = NewOrderBook
    /\ pending = NoPending
    /\ replies[Len(replies)].value =
           Some(Order(call.order.id, 100, 5, Buy, "u1", Limit))
    /\ db_tx[Len(db_tx)] =
           [type |-> "UpdateBalance", user_id |-> "u1", asset |-> USDC,
            available |-> 1000, locked |-> 0]

\* C13: a CancelOrder whose id does not rest under the caller - never
\* rested, already filled, already cancelled, or resting under another
\* owner - replies none and changes neither the book nor any balance, and
\* emits no intent.
C13_CancelMissIsNoOp ==
    (call.op = "CancelOrder" /\ Requested(call.book) = {}) =>
        /\ LastReply.value = None
        /\ orderbook = call.book
        /\ \A pair \in Pairs :
               get_balance(balances, pair[1], pair[2]) =
               get_balance(call.balances, pair[1], pair[2])
        /\ call.emitted = <<>>
        /\ db_tx = call.db

\* u2 asks to cancel an order that rests under u1
C13_Witness ==
    /\ call.op = "CancelOrder"
    /\ call.order.user_id = "u2"
    /\ \E o \in RestingOrders(call.book) :
           o.id = call.order.id /\ o.user_id = "u1"
    /\ replies # <<>>
    /\ replies[Len(replies)].value = None
    /\ orderbook = call.book

\* the order was filled as maker before its owner's cancel was handled
C13_AlreadyFilled ==
    /\ call.op = "CancelOrder"
    /\ call.order.user_id = "u1"
    /\ Requested(call.book) = {}
    /\ \E t \in 1 .. Len(trades_history) :
           trades_history[t].maker_id = call.order.id
    /\ replies[Len(replies)].value = None

\* the same cancel twice: the second one finds nothing
C13_CancelledTwice ==
    /\ Len(handled) >= 2
    /\ handled[Len(handled)].type = "CancelOrder"
    /\ handled[Len(handled) - 1].type = "CancelOrder"
    /\ handled[Len(handled)].order = handled[Len(handled) - 1].order
    /\ pending = NoPending
    /\ Len(replies) = Len(handled)
    /\ replies[Len(replies) - 1].value # None
    /\ replies[Len(replies)].value = None

-----------------------------------------------------------------------------
(* Properties of the persistence intents of the last PlaceOrder handled *)

\* the intents of the message just handled, in the order db_tx.send was
\* called: those in the channel's log after call.db, then those the suspended
\* handler still holds
Emitted ==
    SubSeq(db_tx \o pending.db, Len(call.db) + 1, Len(db_tx) + Len(pending.db))

\* the owned PlaceOrder just handled was covered by its owner
LockPassed ==
    /\ call.op = "PlaceOrder"
    /\ call.order.user_id # NoUser
    /\ AvailableOf(call.balances, call.order.user_id, Committed(call.order))
           >= Required(call.order)

\* the UpdateBalance intent of a (user, asset) pair with the given balances
BalanceIntent(user_id, asset, available, locked) ==
    [type |-> "UpdateBalance", user_id |-> user_id, asset |-> asset,
     available |-> available, locked |-> locked]

\* C14: an owned PlaceOrder that passes try_lock and yields k >= 1 trades
\* emits k + 3 intents: first the UpdateBalance of the locked asset with the
\* balances right after the lock, then one SaveTrade per trade in trade-list
\* order with the trade's maker id, taker id, price, quantity and the
\* taker's owner, then UpdateBalance of USDC and of BAD with the balances
\* after settlement.
C14_IntentOrder ==
    (LockPassed /\ call.trades # <<>>) =>
        LET u == call.order.user_id
            asset == Committed(call.order)
            k == Len(call.trades)
        IN  /\ Emitted = call.emitted
            /\ Len(Emitted) = k + 3
            /\ Emitted[1] =
                   BalanceIntent(u, asset,
                       AvailableOf(call.balances, u, asset) - Required(call.order),
                       LockedOf(call.balances, u, asset) + Required(call.order))
            /\ \A i \in 1 .. k :
                   Emitted[i + 1] =
                       [type |-> "SaveTrade",
                        maker_order_id |-> call.trades[i].maker_id,
                        taker_order_id |-> call.trades[i].taker_id,
                        price |-> call.trades[i].price,
                        quantity |-> call.trades[i].quantity,
                        user_id |-> u]
            /\ Emitted[k + 2] =
                   BalanceIntent(u, USDC, AvailableOf(balances, u, USDC),
                                 LockedOf(balances, u, USDC))
            /\ Emitted[k + 3] =
                   BalanceIntent(u, BAD, AvailableOf(balances, u, BAD),
                                 LockedOf(balances, u, BAD))

\* u1 buys 10 @ 100 from two resting sells of 5 @ 100: lock, two SaveTrade in
\* trade order, then the two final balances
C14_Witness ==
    /\ LockPassed
    /\ call.order.side = Buy /\ call.order.price = 100
    /\ call.order.quantity = 10
    /\ Len(call.trades) = 2
    /\ call.trades[1].maker_id # call.trades[2].maker_id
    /\ Len(Emitted) = 5
    /\ Emitted[1] = BalanceIntent("u1", USDC, 0, 1000)
    /\ Emitted[2].type = "SaveTrade"
    /\ Emitted[2].maker_order_id = call.trades[1].maker_id
    /\ Emitted[3].type = "SaveTrade"
    /\ Emitted[3].maker_order_id = call.trades[2].maker_id
    /\ Emitted[4] = BalanceIntent("u1", USDC, 0, 0)
    /\ Emitted[5] = BalanceIntent("u1", BAD, 10, 0)

\* C15: an owned PlaceOrder that passes try_lock and produces no trades emits
\* exactly one intent, the UpdateBalance of the locked asset with the
\* balances after the lock.
C15_OneIntentWithoutTrades ==
    (LockPassed /\ call.trades = <<>>) =>
        LET u == call.order.user_id
            asset == Committed(call.order)
        IN  Emitted =
                <<BalanceIntent(u, asset, AvailableOf(balances, u, asset),
                                LockedOf(balances, u, asset))>>

\* What the PlaceOrder arm does emit without trades: the lock's UpdateBalance
\* and then UpdateBalance of USDC and of BAD all the same
C15_ThreeIntentsWithoutTrades ==
    (LockPassed /\ call.trades = <<>>) =>
        LET u == call.order.user_id
            asset == Committed(call.order)
        IN  Emitted =
                <<BalanceIntent(u, asset, AvailableOf(balances, u, asset),
                                LockedOf(balances, u, asset)),
                  BalanceIntent(u, USDC, AvailableOf(balances, u, USDC),
                                LockedOf(balances, u, USDC)),
                  BalanceIntent(u, BAD, AvailableOf(balances, u, BAD),
                                LockedOf(balances, u, BAD))>>

-----------------------------------------------------------------------------
(* Properties of the actor loop *)

\* One message applied to the actor's state, with nothing else in between:
\* the state after it and the value replied
Sequentially(state, msg) ==
    IF msg.type = "PlaceOrder"
    THEN LET r == place_order(state.book, state.balances, state.history,
                              state.db, msg.order)
         IN  [book |-> r.book, balances |-> r.balances, history |-> r.history,
              db |-> r.db,
              replies |-> Append(state.replies, Reply(msg.respond_to, r.trades))]
    ELSE IF msg.type = "CancelOrder"
    THEN LET r == cancel_order(state.book, state.balances, state.db,
                               msg.order.id, msg.order.user_id)
         IN  [book |-> r.book, balances |-> r.balances,
              history |-> TrimHistory(state.history), db |-> r.db,
              replies |-> Append(state.replies,
                                 Reply(msg.respond_to, r.canceled))]
    ELSE [state EXCEPT
              !.history = TrimHistory(state.history),
              !.replies = Append(state.replies,
                                 ClonedReply(msg.respond_to,
                                             IF msg.type = "GetOrderBook"
                                             THEN state.book
                                             ELSE state.history))]

\* the messages applied one after the other from the actor's first state
RECURSIVE OneByOne(_)
OneByOne(msgs) ==
    IF msgs = <<>>
    THEN [book |-> NewOrderBook, balances |-> LoadedLedger, history |-> <<>>,
          db |-> <<>>, replies |-> <<>>]
    ELSE Sequentially(OneByOne(SubSeq(msgs, 1, Len(msgs) - 1)),
                      msgs[Len(msgs)])

\* C16: serialized, atomic processing.  The messages are received in the
\* order they arrived (the k-th message received is the k-th sent), and the
\* book, the ledger, the history, the intents and every reply - trades, book
\* snapshot, trade history, cancelled order - are those of applying the
\* received messages one after the other: no reply shows an order locked but
\* not matched, or matched but not settled.  While a handler is suspended on
\* the sink its reply and remaining intents are the only things outstanding.
C16_SerializedAtomic ==
    /\ \A k \in 1 .. Len(handled) : handled[k].respond_to = k
    /\ \A k \in 1 .. Len(mailbox) : mailbox[k].respond_to = Len(handled) + k
    /\ LET one == OneByOne(handled)
       IN  /\ orderbook = one.book
           /\ balances = one.balances
           /\ trades_history = one.history
           /\ db_tx \o pending.db = one.db
           /\ replies \o pending.reply = one.replies

\* three senders have their messages in flight at once; the actor has taken
\* the first two, an unowned sell and u1's buy that trades against it, and
\* is suspended in the buy's handler while the third message waits
C16_Witness ==
    /\ Len(handled) = 2
    /\ handled[1].type = "PlaceOrder" /\ handled[1].order.user_id = NoUser
    /\ handled[2].type = "PlaceOrder" /\ handled[2].order.user_id = "u1"
    /\ call.trades # <<>>
    /\ pending # NoPending
    /\ Len(mailbox) = 1
    /\ Len(replies) = 1

\* the handler of the last message received is suspended in
\* db_tx.send(..).await: the channel to the sink is full, and nothing but the
\* sink taking an intent lets the actor go on
SuspendedOnSink ==
    /\ pending # NoPending
    /\ Len(db_tx) - db_taken >= DbCapacity

\* C17: the actor never blocks on the persistence sink.  Every PlaceOrder it
\* dequeues reaches its reply and the actor goes on to the next message even
\* with the sink's channel full and the sink not consuming: in no state is a
\* handler held back by the sink.
C17_NeverBlocksOnSink == ~SuspendedOnSink

\* the number of values sent so far on the reply channel of the k-th request
RepliesTo(k) == Cardinality({i \in 1 .. Len(replies) : replies[i].respond_to = k})

\* C18: exactly one reply per request.  Every message the actor has finished
\* handling - PlaceOrder accepted or refused, CancelOrder, GetOrderBook,
\* GetTrades - has exactly one value on its reply channel; a message not yet
\* received, or whose handler has not reached its reply yet, has none; no
\* request ever has two.
C18_OneReplyPerRequest ==
    \A k \in 1 .. sent :
        RepliesTo(k) =
            IF k < Len(handled) \/ (k = Len(handled) /\ pending = NoPending)
            THEN 1 ELSE 0

\* a refused PlaceOrder, a CancelOrder and a read have been handled, each
\* answered once
C18_Witness ==
    /\ Len(handled) = 3
    /\ pending = NoPending
    /\ handled[1].type = "PlaceOrder" /\ replies[1].value = <<>>
    /\ AvailableOf(LoadedLedger, handled[1].order.user_id,
                   Committed(handled[1].order)) < Required(handled[1].order)
    /\ handled[2].type = "CancelOrder"
    /\ handled[3].type \in {"GetOrderBook", "GetTrades"}
    /\ \A k \in 1 .. 3 : RepliesTo(k) = 1

-----------------------------------------------------------------------------
(* SpecHistory: the engine actor with a long trade history *)

\* The trades of n earlier matches between unowned orders, all of them gone
\* from the book
EarlierTrades(n) == [i \in 1 .. n |-> Trade(0, 0, 100, 1)]

\* the book after those matches: empty, or with one unowned sell resting
EarlierBooks ==
    {NewOrderBook,
     process_order(NewOrderBook, Order(1, 100, 10, Sell, NoUser, Limit)).book}

\* The actor after many unowned orders have traded: the history is one trade
\* short of the high-water mark or at it, and has never been cut.
InitHistory ==
    /\ orderbook \in EarlierBooks
    /\ balances = LoadedLedger
    /\ trades_history \in {EarlierTrades(HighWaterMark - 1),
                           EarlierTrades(HighWaterMark)}
    /\ mailbox = <<>>
    /\ db_tx = <<>>
    /\ db_taken = 0
    /\ pending = NoPending
    /\ replies = <<>>
    /\ handled = <<>>
    /\ since_trim = NoTrim
    /\ issued = 1
    /\ sent = 0
    /\ call = NoCall
    /\ InitEnv

\* the simulator's orders
HistoryOrders ==
    {Order(issued + 1, 100, q, s, NoUser, Limit) : q \in {5, 10}, s \in Side}

NextHistory ==
    \/ \E order \in HistoryOrders : SendPlaceOrder(order)
    \/ SendGetTrades
    \/ HandlePlaceOrder
    \/ HandleGetTrades

SpecHistory == InitHistory /\ [][NextHistory]_vars

-----------------------------------------------------------------------------
(* C19 *)

\* C19: bounded history.  Once the trade history has exceeded HighWaterMark
\* and been cut, a GetTrades reply holds at most LowWaterMark trades plus the
\* trades appended since that cut.
C19_BoundedHistory ==
    (call.op = "GetTrades" /\ since_trim # NoTrim) =>
        /\ Len(LastReply.value) <= LowWaterMark + since_trim
        /\ LastReply.value = call.history

\* the history was cut, a trade was appended after the cut, and GetTrades
\* replied with LowWaterMark + 1 trades
C19_Witness ==
    /\ call.op = "GetTrades"
    /\ since_trim >= 1
    /\ Len(LastReply.value) = LowWaterMark + since_trim

-----------------------------------------------------------------------------
(* SpecReplies: the engine actor and callers that keep and change the
   snapshots they were sent *)

ReadTypes == {"GetOrderBook", "GetTrades"}

\* the i-th reply sent answers a GetOrderBook or a GetTrades
IsSnapshot(i) == handled[replies[i].respond_to].type \in ReadTypes

\* what the holder of the i-th reply reads in it: its own copy, or the
\* engine's book or history if the reply shares the engine's memory
Seen(i) ==
    IF replies[i].owner = "caller" THEN replies[i].value
    ELSE IF handled[replies[i].respond_to].type = "GetOrderBook"
         THEN orderbook
         ELSE trades_history

\* a snapshot emptied by its holder
Emptied(type) == IF type = "GetOrderBook" THEN NewOrderBook ELSE <<>>

\* The holder of the i-th reply empties the snapshot it was sent.  The write
\* goes to the memory the reply occupies.
CallerChangesReply(i) ==
    /\ IsSnapshot(i)
    /\ Seen(i) # Emptied(handled[replies[i].respond_to].type)
    /\ \E type \in {handled[replies[i].respond_to].type} :
           IF replies[i].owner = "caller"
           THEN /\ replies' = [replies EXCEPT ![i].value = Emptied(type)]
                /\ UNCHANGED <<orderbook, trades_history>>
           ELSE /\ orderbook' = IF type = "GetOrderBook"
                                THEN Emptied(type) ELSE orderbook
                /\ trades_history' = IF type = "GetTrades"
                                     THEN Emptied(type) ELSE trades_history
                /\ UNCHANGED replies
    /\ call' = Before("CallerChangesReply", NoOrder)
    /\ UNCHANGED <<balances, mailbox, db_tx, db_taken, pending, handled,
                   since_trim, issued, sent, env_vars>>

\* the simulator's orders
ReplyOrders ==
    {Order(issued + 1, 100, q, s, NoUser, Limit) : q \in {5, 10}, s \in Side}

NextReplies ==
    \/ \E order \in ReplyOrders : SendPlaceOrder(order)
    \/ SendGetOrderBook
    \/ SendGetTrades
    \/ HandlePlaceOrder
    \/ HandleGetOrderBook
    \/ HandleGetTrades
    \/ \E i \in 1 .. Len(replies) : CallerChangesReply(i)

SpecReplies == Init /\ [][NextReplies]_vars

-----------------------------------------------------------------------------
(* C20 *)

-----------------------------------------------------------------------------
(* SpecLimitBook: the order book of src/src/orderbook.rs driven directly with *)
(* limit orders, a quantity of 0 among them                                   *)

LimitBookOrders ==
    {Order(id, p, q, s, NoUser, Limit) :
        id \in OrderIds, p \in Prices, q \in Quantities \cup {0}, s \in Side}

NextLimitBook == \E order \in LimitBookOrders : ProcessOrder(order)

SpecLimitBook == InitBook /\ [][NextLimitBook]_vars

-----------------------------------------------------------------------------
(* C26, C27, C30: the shape of the book after process_order *)

\* no level is empty and no resting order has quantity 0
WellFormed(book) ==
    \A levels \in {book.bids, book.asks} :
        \A p \in DOMAIN levels :
            /\ levels[p] # <<>>
            /\ \A i \in 1 .. Len(levels[p]) : levels[p][i].quantity > 0

\* What is left of a side, given in priority order, after `quantity` units
\* were traded against it: the orders consumed whole are gone, the one
\* consumed in part stays first with what remains of it.
RECURSIVE Residual(_, _)
Residual(makers, quantity) ==
    IF makers = <<>> \/ quantity = 0 THEN makers
    ELSE IF quantity >= Head(makers).order.quantity
    THEN Residual(Tail(makers), quantity - Head(makers).order.quantity)
    ELSE <<[Head(makers) EXCEPT !.order.quantity = @ - quantity]>>
         \o Tail(makers)

\* C26: book well-formedness.  After any sequence of process_order calls every
\* price level present holds a non-empty queue and every resting order has
\* quantity > 0; the call removes a maker exactly when its remaining quantity
\* reaches zero and a level exactly when its queue empties: the side matched
\* against is what it was, less the orders consumed whole, with the order
\* consumed in part still first.
C26_BookWellFormed ==
    /\ WellFormed(orderbook)
    /\ IsBookCall =>
           PriorityOrder(OppositeOf(orderbook, call.order), call.order.side)
               = Residual(PriorityOrder(OppositeOf(call.book, call.order),
                                        call.order.side),
                          SumQuantity(call.trades))

\* one call emptied a level, which is gone, and filled the first order of the
\* next level in part, which stays with the rest of its quantity
C26_Witness ==
    /\ IsBookCall
    /\ Len(call.trades) = 2
    /\ Cardinality(DOMAIN OppositeOf(call.book, call.order)) = 2
    /\ Cardinality(DOMAIN OppositeOf(orderbook, call.order)) = 1
    /\ \E p \in DOMAIN OppositeOf(orderbook, call.order) :
           /\ OppositeOf(orderbook, call.order)[p][1].quantity
                  < OppositeOf(call.book, call.order)[p][1].quantity
           /\ OppositeOf(orderbook, call.order)[p][1].id
                  = call.trades[2].maker_id

\* a call with quantity 0 trades nothing, rests nothing and leaves the book
\* as it was
C26_ZeroQuantity ==
    (IsBookCall /\ call.order.quantity = 0) =>
        call.trades = <<>> /\ orderbook = call.book

\* C27: the limit is respected and matching is exhaustive.  Every trade of a
\* limit Buy has price <= the order's limit (of a limit Sell, price >= the
\* limit), and when the call returns with the order's remainder resting no
\* order at a price that crosses the limit is left on the opposite side.
C27_LimitRespectedExhaustive ==
    (IsBookCall /\ call.order.order_type = Limit) =>
        /\ \A i \in 1 .. Len(call.trades) :
               IF call.order.side = Buy
               THEN call.trades[i].price <= call.order.price
               ELSE call.trades[i].price >= call.order.price
        /\ SumQuantity(call.trades) < call.order.quantity =>
               /\ \E i \in 1 .. Len(OwnOf(orderbook, call.order)[call.order.price]) :
                      OwnOf(orderbook, call.order)[call.order.price][i]
                          = [call.order EXCEPT
                                 !.quantity = @ - SumQuantity(call.trades)]
               /\ \A p \in DOMAIN OppositeOf(orderbook, call.order) :
                      IF call.order.side = Buy
                      THEN p > call.order.price
                      ELSE p < call.order.price

\* a limit order traded at its limit, took every crossing level, and its
\* remainder rests with a level it does not cross still on the other side
C27_Witness ==
    /\ IsBookCall
    /\ call.order.order_type = Limit
    /\ call.trades # <<>>
    /\ \E i \in 1 .. Len(call.trades) : call.trades[i].price = call.order.price
    /\ 0 < SumQuantity(call.trades)
    /\ SumQuantity(call.trades) < call.order.quantity
    /\ DOMAIN OppositeOf(orderbook, call.order) # {}

\* C30: the book is never crossed.  After any sequence of process_order calls
\* with limit orders, whenever both sides are non-empty the highest bid price
\* is strictly lower than the lowest ask price.
C30_NeverCrossed ==
    (DOMAIN orderbook.bids # {} /\ DOMAIN orderbook.asks # {}) =>
        SetMax(DOMAIN orderbook.bids) < SetMin(DOMAIN orderbook.asks)

\* both sides hold orders, one tick apart, after a call that traded
C30_Witness ==
    /\ IsBookCall
    /\ call.trades # <<>>
    /\ DOMAIN orderbook.bids # {} /\ DOMAIN orderbook.asks # {}
    /\ SetMax(DOMAIN orderbook.bids) + 1 = SetMin(DOMAIN orderbook.asks)

-----------------------------------------------------------------------------
(* C25: the balance of an unknown pair *)

\* the (user, asset) pairs load_balance or on_trade_match has written
Written == {handled[i] : i \in 1 .. Len(handled)}

\* C25: get_balance returns (0, 0) for every (user, asset) pair that was never
\* loaded and never written by a settlement, whatever calls were made for
\* other pairs; a try_lock_balance that fails for such a user leaves that
\* answer as it was.
C25_UnknownPairIsZero ==
    \A pair \in Pairs \ Written :
        get_balance(balances, pair[1], pair[2]) = <<0, 0>>

\* a user none of whose pairs was written asked for a lock of 500 USDC and
\* was refused, after calls for the other user
C25_Witness ==
    /\ call.op = "try_lock_balance"
    /\ ~call.ok
    /\ call.order.side = Buy /\ call.order.price * call.order.quantity = 500
    /\ Written # {}
    /\ \A asset \in Assets : <<call.order.user_id, asset>> \notin Written
    /\ call.order.user_id \in DOMAIN balances
    /\ call.order.user_id \notin DOMAIN call.balances

-----------------------------------------------------------------------------
(* SpecPlace: the engine actor fed limit orders of positive price and        *)
(* quantity by two owners and by the simulator                               *)

PlaceLimits == {<<100, 5>>, <<101, 5>>}

PlaceOrders ==
    {Order(issued + 1, pq[1], pq[2], s, u, Limit) :
        pq \in PlaceLimits, s \in Side, u \in {"u1", "u2", NoUser}}

NextPlace ==
    \/ \E order \in PlaceOrders : SendPlaceOrder(order)
    \/ HandlePlaceOrder
    \/ ResumeSend
    \/ DbWriterRecv

SpecPlace == Init /\ [][NextPlace]_vars

-----------------------------------------------------------------------------
(* C23 *)

\* C23: balances are non-negative.  After any sequence of PlaceOrder messages
\* whose orders have positive price and positive quantity, starting from the
\* non-negative loaded balances, every (user, asset) pair has available >= 0
\* and locked >= 0.
C23_BalancesNonNegative ==
    \A pair \in Pairs :
        /\ AvailableOf(balances, pair[1], pair[2]) >= 0
        /\ LockedOf(balances, pair[1], pair[2]) >= 0

\* an owned buy was locked at its limit of 101, traded at 100 and was settled
\* at the trade price: 5 of the owner's USDC stay locked, 495 are available
C23_Witness ==
    /\ call.op = "PlaceOrder"
    /\ call.order.user_id = "u1" /\ call.order.side = Buy
    /\ call.order.price = 101
    /\ call.trades # <<>>
    /\ call.trades[1].price = 100
    /\ LockedOf(balances, "u1", USDC) = 5
    /\ AvailableOf(balances, "u1", USDC) = 495
    /\ AvailableOf(balances, "u1", BAD) = 5

-----------------------------------------------------------------------------
(* The gateway's create_order and the market simulator in front of the      *)
(* actor                                                                     *)

\* the clock is followed for MaxTicks ms from the start, and for as many again
\* one whole period of IdModulus later
MaxTicks == 1

ClockSteps == {1, IdModulus}

\* CreateOrderPayload: price is a Decimal and quantity a u64, both passed on
\* as they come
Payload(price, quantity, side, order_type) ==
    [price |-> price, quantity |-> quantity, side |-> side,
     order_type |-> order_type]
CreateOrderPayloads ==
    {Payload(100, 5, Buy, Limit), Payload(100, 5, Sell, Limit),
     Payload(0, 5, Buy, Limit), Payload(100, 0, Sell, Limit),
     Payload(0, 5, Sell, Market)}

\* time passes
Tick(d) ==
    /\ (gateway.now + d - StartMillis) \div IdModulus <= 1
    /\ (gateway.now + d - StartMillis) % IdModulus <= MaxTicks
    /\ gateway' = [gateway EXCEPT !.now = @ + d]
    /\ UNCHANGED <<actor_vars, mailbox, issued, sent, links, socket>>

\* (SystemTime::now().duration_since(UNIX_EPOCH).unwrap().as_millis()
\*  % 10000000) as u64
OrderIdAt(now) == now % IdModulus

\* POST /order: the order is built from the payload and the clock and sent
create_order(payload) ==
    SendPlaceOrder(Order(OrderIdAt(gateway.now), payload.price,
                         payload.quantity, payload.side, "u1",
                         payload.order_type))

\* the simulator's loop, from the top to its wait for the book: id_counter += 1
\* and a GetOrderBook request
SimulatorAsks ==
    /\ gateway.awaiting = 0
    /\ links.senders = "held"
    /\ sent < MaxMsgs
    /\ mailbox' = Append(mailbox, GetOrderBookMsg(sent + 1))
    /\ sent' = sent + 1
    /\ gateway' = [gateway EXCEPT !.id_counter = @ + 1, !.awaiting = sent + 1]
    /\ UNCHANGED <<actor_vars, issued, links, socket>>

\* the rest of the loop once the book has come: an order at a price and a
\* quantity drawn at random around the best prices, with the counter as its
\* id and no owner; the reply receiver _done_rx is dropped unread
SimulatorPlaces ==
    /\ gateway.awaiting # 0
    /\ \E i \in 1 .. Len(replies) : replies[i].respond_to = gateway.awaiting
    /\ links.senders = "held"
    /\ sent < MaxMsgs
    /\ \E pq \in SimulatorLimits, s \in Side :
           mailbox' = Append(mailbox,
                             PlaceOrderMsg(Order(gateway.id_counter, pq[1],
                                                 pq[2], s, NoUser, Limit),
                                           sent + 1))
    /\ issued' = IssuedAfter(gateway.id_counter)
    /\ sent' = sent + 1
    /\ gateway' = [gateway EXCEPT !.awaiting = 0]
    /\ links' = [links EXCEPT !.reply_rx = @ \cup {sent + 1}]
    /\ UNCHANGED <<actor_vars, socket>>

NextGateway ==
    \/ \E d \in ClockSteps : Tick(d)
    \/ \E payload \in CreateOrderPayloads : create_order(payload)
    \/ SimulatorAsks
    \/ SimulatorPlaces
    \/ HandlePlaceOrder
    \/ HandleGetOrderBook
    \/ ResumeSend
    \/ DbWriterRecv

SpecGateway == Init /\ [][NextGateway]_vars

\* the PlaceOrder messages sent to the actor so far, oldest first
RECURSIVE PlaceOrdersOf(_)
PlaceOrdersOf(msgs) ==
    IF msgs = <<>>
    THEN <<>>
    ELSE (IF Head(msgs).type = "PlaceOrder" THEN <<Head(msgs).order>> ELSE <<>>)
         \o PlaceOrdersOf(Tail(msgs))

Submitted == PlaceOrdersOf(handled \o mailbox)

\* C29: order ids are unique.  No two orders submitted to the actor, by
\* create_order or by the simulator, carry the same id, and no two resting
\* orders of the book share an id.
C29_UniqueIds ==
    /\ \A i, j \in 1 .. Len(Submitted) :
           i # j => Submitted[i].id # Submitted[j].id
    /\ \A o \in RestingOrders(orderbook) :
           Cardinality(PlacesOf(orderbook.bids, o.id))
               + Cardinality(PlacesOf(orderbook.asks, o.id)) = 1

\* the orders create_order has sent: those of the gateway's user
FromGateway == {i \in 1 .. Len(Submitted) : Submitted[i].user_id = "u1"}

\* C24: malformed orders never reach the actor.  Every PlaceOrder that
\* create_order has put in the mailbox has a quantity above 0 and, when it is
\* a limit order, a price above 0.
C24_MalformedNeverEnqueued ==
    \A i \in FromGateway :
        /\ Submitted[i].quantity > 0
        /\ Submitted[i].order_type = Limit => Submitted[i].price > 0

-----------------------------------------------------------------------------
(* The snapshot broadcast and one web-socket subscriber                      *)

\* broadcast::channel::<OrderBook>(10000), scaled: the snapshots the channel
\* retains
BroadcastCapacity == 2
\* snapshots published in a run
MaxSnapshots == 4

\* The engine publishes a snapshot: broadcast send never waits for a
\* receiver, the oldest retained value is overwritten.
Publish ==
    /\ socket.senders = 2
    /\ socket.published < MaxSnapshots
    /\ socket' = [socket EXCEPT !.published = @ + 1]
    /\ UNCHANGED <<actor_vars, mailbox, issued, sent, gateway, links>>

\* the engine's sender is dropped; AppState's stays, handle_socket holds the
\* state itself
DropEngineSender ==
    /\ socket.senders = 2
    /\ socket' = [socket EXCEPT !.senders = 1]
    /\ UNCHANGED <<actor_vars, mailbox, issued, sent, gateway, links>>

\* the oldest snapshot the channel still retains
OldestRetained(s) ==
    IF s.published > BroadcastCapacity
    THEN s.published - BroadcastCapacity + 1
    ELSE 1

\* rx.recv() once it is ready: Lagged(count) with the receiver moved to the
\* oldest retained value, or the next value, or Closed
BroadcastRecv(s) ==
    IF s.next < OldestRetained(s)
    THEN [kind |-> "Lagged", value |-> OldestRetained(s) - s.next,
          next |-> OldestRetained(s)]
    ELSE IF s.next <= s.published
    THEN [kind |-> "Ok", value |-> s.next, next |-> s.next + 1]
    ELSE [kind |-> "Closed", value |-> 0, next |-> s.next]

RecvReady(s) == s.next <= s.published \/ s.senders = 0

\* Err(e) => { eprintln!(..); break; }
OnLaggedBreaks(loop) == "lagged"
\* Err(RecvError::Lagged(count)) => { eprintln!(..); continue; }
OnLagged(loop) == loop

\* the rx.recv() branch of the select!
SubscriberRecv ==
    /\ socket.loop = "running"
    /\ RecvReady(socket)
    /\ \E r \in {BroadcastRecv(socket)} :
           socket' =
               IF r.kind = "Lagged"
               THEN [socket EXCEPT !.next = r.next,
                                   !.lagged = Append(@, r.value),
                                   !.loop = OnLagged(@)]
               ELSE IF r.kind = "Ok"
               THEN IF socket.client = "connected"
                    THEN [socket EXCEPT !.next = r.next,
                                        !.forwarded = Append(@, r.value)]
                    ELSE [socket EXCEPT !.next = r.next,
                                        !.loop = "send failed"]
               ELSE [socket EXCEPT !.loop = "closed"]
    /\ UNCHANGED <<actor_vars, mailbox, issued, sent, gateway, links>>

\* the client goes away
ClientDisconnects ==
    /\ socket.client = "connected"
    /\ socket' = [socket EXCEPT !.client = "gone"]
    /\ UNCHANGED <<actor_vars, mailbox, issued, sent, gateway, links>>

\* the socket.recv() branch of the select!: Some(Err(_)) | None => break.
\* Some(Ok(_)) is ignored and changes nothing.
SubscriberSocketRecv ==
    /\ socket.loop = "running"
    /\ socket.client = "gone"
    /\ socket' = [socket EXCEPT !.loop = "socket closed"]
    /\ UNCHANGED <<actor_vars, mailbox, issued, sent, gateway, links>>

NextSocket ==
    \/ Publish
    \/ DropEngineSender
    \/ SubscriberRecv
    \/ ClientDisconnects
    \/ SubscriberSocketRecv

SpecSocket == Init /\ [][NextSocket]_vars

RECURSIVE SumSeq(_)
SumSeq(seq) == IF seq = <<>> THEN 0 ELSE Head(seq) + SumSeq(Tail(seq))

\* C28: a subscriber that falls behind is neither disconnected nor waited
\* for.  The loop of handle_socket is left only because the broadcast is
\* closed or because its own socket failed (a send to it failed, or it was
\* closed), never because of a lag; a lag event of count n moves the receiver
\* past exactly n snapshots, so that every snapshot before the receiver's
\* position was either forwarded, in order, or counted in a lag event (or is
\* the one whose send failed), and what is forwarded after a lag are later
\* snapshots.
C28_LaggingSubscriberGoesOn ==
    /\ socket.loop \in {"running", "closed", "send failed", "socket closed"}
    /\ socket.loop = "closed" => socket.senders = 0
    /\ socket.loop \in {"send failed", "socket closed"} =>
           socket.client = "gone"
    /\ \A i \in 1 .. Len(socket.lagged) : socket.lagged[i] > 0
    /\ \A i \in 1 .. Len(socket.forwarded) :
           /\ socket.forwarded[i] < socket.next
           /\ i > 1 => socket.forwarded[i - 1] < socket.forwarded[i]
    /\ SumSeq(socket.lagged) + Len(socket.forwarded)
           + (IF socket.loop = "send failed" THEN 1 ELSE 0) = socket.next - 1

\* the engine has published more than the channel retains past the
\* subscriber, the subscriber has seen the lag event, is still in its loop and
\* has forwarded a snapshot later than the ones it missed
C28_Witness ==
    /\ socket.lagged # <<>>
    /\ socket.loop = "running"
    /\ socket.forwarded # <<>>
    /\ socket.forwarded[Len(socket.forwarded)] > Len(socket.forwarded)

-----------------------------------------------------------------------------
(* The actor and the far ends of its channels: the sink's receiver, the      *)
(* callers' reply receivers, the mailbox senders                             *)

\* the sink drops db_rx
DropDbRx ==
    /\ links.db_rx = "held"
    /\ links' = [links EXCEPT !.db_rx = "dropped"]
    /\ UNCHANGED <<actor_vars, mailbox, issued, sent, gateway, socket>>

\* the caller of request k drops its reply receiver before the reply is sent,
\* as the simulator does with _done_rx
DropReplyRx(k) ==
    /\ k \notin links.reply_rx
    /\ RepliesTo(k) = 0
    /\ links' = [links EXCEPT !.reply_rx = @ \cup {k}]
    /\ UNCHANGED <<actor_vars, mailbox, issued, sent, gateway, socket>>

\* the last mailbox sender is dropped
DropSenders ==
    /\ links.senders = "held"
    /\ links' = [links EXCEPT !.senders = "dropped"]
    /\ UNCHANGED <<actor_vars, mailbox, issued, sent, gateway, socket>>

\* rx.recv() yields None: every sender is gone and no message is left
RecvNoneOnceClosed(queue, senders) == senders = "dropped"
RecvNone(queue, senders) == senders = "dropped" /\ queue = <<>>

\* while let Some(msg) = rx.recv().await { .. } is left
ActorEnds ==
    /\ links.actor = "running"
    /\ pending = NoPending
    /\ RecvNone(mailbox, links.senders)
    /\ links' = [links EXCEPT !.actor = "ended"]
    /\ UNCHANGED <<actor_vars, mailbox, issued, sent, gateway, socket>>

\* u1's buy and the simulator's sell it trades with
LinkOrders ==
    {Order(issued + 1, 100, 5, Buy, "u1", Limit),
     Order(issued + 1, 100, 5, Sell, NoUser, Limit)}

NextLinks ==
    \/ \E order \in LinkOrders : SendPlaceOrder(order)
    \/ SendGetOrderBook
    \/ HandlePlaceOrder
    \/ HandleGetOrderBook
    \/ ResumeSend
    \/ DbWriterRecv
    \/ DropDbRx
    \/ \E k \in 1 .. sent : DropReplyRx(k)
    \/ DropSenders
    \/ ActorEnds

SpecLinks == Init /\ [][NextLinks]_vars

\* the replies whose receiver is still there
Heard(sent_replies) ==
    SelectSeq(sent_replies, LAMBDA r : r.respond_to \notin links.reply_rx)

IsPrefix(a, b) == Len(a) <= Len(b) /\ SubSeq(b, 1, Len(a)) = a

\* C21: collaborator failures are ignored.  Whether or not the sink has
\* dropped its receiver and whether or not callers have dropped their reply
\* receivers, the book, the ledger and the history are those of applying the
\* received messages one after the other; the callers still listening have
\* the replies of that application; the intents queued are all of them while
\* the sink holds its receiver and a prefix of them afterwards; the actor is
\* running as long as a sender is held, and with the sink gone it is never
\* left suspended in a send.
C21_CollaboratorFailuresIgnored ==
    LET one == OneByOne(handled)
    IN  /\ orderbook = one.book
        /\ balances = one.balances
        /\ trades_history = one.history
        /\ Heard(replies \o pending.reply) = Heard(one.replies)
        /\ IF links.db_rx = "held"
           THEN db_tx \o pending.db = one.db
           ELSE IsPrefix(db_tx, one.db)
        /\ links.senders = "held" => links.actor = "running"
        /\ (links.db_rx = "dropped" /\ pending # NoPending
              /\ links.actor = "running") => ENABLED ResumeSend

\* the sink is gone and the caller of the first request has dropped its
\* receiver; the actor has handled that request and then u1's buy, which
\* traded, was replied to, and whose intents went nowhere
C21_Witness ==
    /\ links.db_rx = "dropped"
    /\ 1 \in links.reply_rx
    /\ Len(handled) = 2
    /\ handled[2].order.user_id = "u1"
    /\ call.trades # <<>>
    /\ replies = <<Reply(2, call.trades)>>
    /\ db_tx = <<>>
    /\ links.actor = "running"

\* The actor's task is scheduled whenever it can go on, and the sink, while it
\* holds its receiver, keeps taking intents.
ActorStep == HandlePlaceOrder \/ HandleGetOrderBook \/ ResumeSend \/ ActorEnds

FairLinks == WF_vars(ActorStep) /\ WF_vars(DbWriterRecv)

SpecLinksFair == SpecLinks /\ FairLinks

\* the actor has left its loop with nothing undone
EndedCleanly ==
    /\ links.senders = "dropped"
    /\ mailbox = <<>>
    /\ pending = NoPending
    /\ Len(handled) = sent
    /\ \A k \in 1 .. sent : RepliesTo(k) = 1 \/ k \in links.reply_rx

\* C22: the actor's lifetime.  The actor ends only when every mailbox sender
\* has been dropped and the mailbox is empty, with every message sent before
\* that handled and replied to (unless its caller had dropped the receiver):
\* neither a refused order nor a dropped sink or reply receiver ends it.  And
\* once the senders are dropped the actor does end.
C22_ActorLifetime ==
    /\ [](links.actor = "ended" => EndedCleanly)
    /\ (links.senders = "dropped") ~> (links.actor = "ended")

\* the actor has ended after the sink went away, a caller stopped listening
\* and the last order, a buy u1 could not pay for, was refused
C22_Witness ==
    /\ links.actor = "ended"
    /\ sent = MaxMsgs
    /\ links.db_rx = "dropped"
    /\ links.reply_rx # {}
    /\ call.op = "PlaceOrder"
    /\ ~call.ok

-----------------------------------------------------------------------------
(* Quantities in process_order *)

\* the quantity resting on one side of a book
RECURSIVE QuantityOf(_)
QuantityOf(makers) ==
    IF makers = <<>> THEN 0
    ELSE Head(makers).order.quantity + QuantityOf(Tail(makers))

RestingQuantity(levels) == QuantityOf(PriorityOrder(levels, Buy))

\* what is left of the taker when its i-th trade is made
RemainingBefore(i) ==
    call.order.quantity - SumQuantity(SubSeq(call.trades, 1, i - 1))

\* C31: quantity accounting in process_order.  Every trade of a call has a
\* quantity above 0, the smaller of what was left of the taker and of what the
\* maker at the head of the best level held when the fill was made; the
\* quantities of the trades sum to at most the taker's quantity; the opposite
\* side holds that sum less than before, and the taker's own side holds what
\* it held plus the remainder put to rest.
C31_QuantityAccounting ==
    (IsBookCall /\ call.order.order_type = Limit) =>
        LET flat == PriorityOrder(OppositeOf(call.book, call.order),
                                  call.order.side)
            T == SumQuantity(call.trades)
        IN  /\ Len(call.trades) <= Len(flat)
            /\ \A i \in 1 .. Len(call.trades) :
                   /\ call.trades[i].quantity > 0
                   /\ call.trades[i].quantity <= RemainingBefore(i)
                   /\ call.trades[i].quantity <= flat[i].order.quantity
                   /\ \/ call.trades[i].quantity = RemainingBefore(i)
                      \/ call.trades[i].quantity = flat[i].order.quantity
            /\ T <= call.order.quantity
            /\ RestingQuantity(OppositeOf(orderbook, call.order))
                   = RestingQuantity(OppositeOf(call.book, call.order)) - T
            /\ RestingQuantity(OwnOf(orderbook, call.order))
                   = RestingQuantity(OwnOf(call.book, call.order))
                     + (call.order.quantity - T)
            /\ OwnOf(orderbook, call.order) =
                   IF T < call.order.quantity
                   THEN RestTaker(OwnOf(call.book, call.order),
                                  [call.order EXCEPT !.quantity = @ - T])
                   ELSE OwnOf(call.book, call.order)

\* a taker of 15 met two makers of 10: the first trade took the whole maker,
\* the second what was left of the taker, and 5 stay with the second maker
C31_Witness ==
    /\ IsBookCall
    /\ call.order.quantity = 15
    /\ Len(call.trades) = 2
    /\ call.trades[1].quantity = 10
    /\ call.trades[2].quantity = 5
    /\ RestingQuantity(OppositeOf(call.book, call.order)) = 20
    /\ RestingQuantity(OppositeOf(orderbook, call.order)) = 5

-----------------------------------------------------------------------------
(* Who is settled by a PlaceOrder *)

IsPlaceCall == call.op = "PlaceOrder"

\* the resting orders of the book before the call that the call's trades
\* were made with
MakersOf(trades, book) ==
    {o \in RestingOrders(book) :
        \E i \in 1 .. Len(trades) : trades[i].maker_id = o.id}

\* C32: only the taker is settled.  A PlaceOrder changes the balances of no
\* user but the owner of the incoming order: the owner of a resting order
\* filled as maker keeps its available and locked balances of both assets,
\* and every intent sent to the sink names the owner of the incoming order.
C32_OnlyTakerSettled ==
    IsPlaceCall =>
        /\ \A u \in Users \ {call.order.user_id} :
               /\ UserEntry(balances, u) = UserEntry(call.balances, u)
               /\ \A a \in Assets :
                      get_balance(balances, u, a)
                          = get_balance(call.balances, u, a)
        /\ \A i \in 1 .. Len(call.emitted) :
               call.emitted[i].user_id = call.order.user_id

\* u1's order traded with an order of u2 that rested on the book, and u2
\* holds what it held
C32_Witness ==
    /\ IsPlaceCall
    /\ call.order.user_id = "u1"
    /\ call.trades # <<>>
    /\ \E o \in MakersOf(call.trades, call.book) : o.user_id = "u2"
    /\ UserEntry(balances, "u2") = UserEntry(call.balances, "u2")
    /\ call.emitted # <<>>

\* an owned limit buy that passed the lock and was filled whole as taker
FilledBuy ==
    /\ IsPlaceCall
    /\ call.order.user_id # NoUser
    /\ call.order.side = Buy
    /\ call.order.order_type = Limit
    /\ call.ok
    /\ SumQuantity(call.trades) = call.order.quantity

\* C33: the price-improvement residual stays locked.  For an owned limit buy
\* at limit P for quantity Q that is filled whole as taker, with V the sum of
\* price * quantity over its trades, the owner's available USDC ends at what
\* it was less P*Q and the locked USDC at what it was plus P*Q - V: the
\* PlaceOrder gives none of P*Q - V back to available.
C33_ResidualStaysLocked ==
    FilledBuy =>
        LET u == call.order.user_id
            before == get_balance(call.balances, u, USDC)
            reserved == call.order.price * call.order.quantity
        IN  get_balance(balances, u, USDC) =
                <<before[1] - reserved,
                  before[2] + reserved - SumValue(call.trades)>>

\* a buy at 101 filled whole at 100: 5 more were locked than were owed
C33_Witness ==
    /\ FilledBuy
    /\ call.order.price * call.order.quantity > SumValue(call.trades)
    /\ get_balance(balances, call.order.user_id, USDC)[2]
           > get_balance(call.balances, call.order.user_id, USDC)[2]

-----------------------------------------------------------------------------
(* What is locked against what rests *)

\* Limit orders of positive price and quantity that leave remainders: u1
\* (holding USDC) buys, u2 (holding BAD) sells, the simulator does both.
ReserveOrders ==
    {Order(issued + 1, 101, 8, Buy, "u1", Limit),
     Order(issued + 1, 100, 5, Buy, "u1", Limit),
     Order(issued + 1, 100, 10, Sell, "u2", Limit),
     Order(issued + 1, 101, 5, Sell, "u2", Limit),
     Order(issued + 1, 100, 5, Sell, NoUser, Limit),
     Order(issued + 1, 100, 5, Buy, NoUser, Limit)}

NextReserve ==
    \/ \E order \in ReserveOrders : SendPlaceOrder(order)
    \/ HandlePlaceOrder
    \/ ResumeSend
    \/ DbWriterRecv

SpecReserve == Init /\ [][NextReserve]_vars

\* what the resting orders of one user on one side need to be paid for:
\* price * quantity of each buy, the quantity of each sell
RECURSIVE Needed(_, _, _)
Needed(makers, user_id, side) ==
    IF makers = <<>> THEN 0
    ELSE (IF Head(makers).order.user_id = user_id
          THEN IF side = Buy
               THEN Head(makers).price * Head(makers).order.quantity
               ELSE Head(makers).order.quantity
          ELSE 0)
         + Needed(Tail(makers), user_id, side)

NeededUSDC(book, user_id) ==
    Needed(PriorityOrder(book.bids, Sell), user_id, Buy)
NeededBAD(book, user_id) ==
    Needed(PriorityOrder(book.asks, Buy), user_id, Sell)

\* C34: the reservation covers every resting order.  For every user the
\* locked USDC is at least the sum of price * remaining quantity over the
\* user's resting buys, and the locked BAD at least the sum of the remaining
\* quantities of the user's resting sells.
C34_ReservationCoversResting ==
    \A u \in Users :
        /\ get_balance(balances, u, USDC)[2] >= NeededUSDC(orderbook, u)
        /\ get_balance(balances, u, BAD)[2] >= NeededBAD(orderbook, u)

\* u1's buy of 8 at 101 took 5 at 100 and rests with 3: 303 are needed and
\* 308 are locked
C34_Witness ==
    /\ IsPlaceCall
    /\ call.order.user_id = "u1"
    /\ call.trades # <<>>
    /\ NeededUSDC(orderbook, "u1") = 303
    /\ get_balance(balances, "u1", USDC)[2] = 308

\* C35: unowned orders bypass the ledger.  A PlaceOrder whose order has no
\* owner is never refused: it is matched against the book as process_order
\* does, changes no balance and sends nothing to the sink, and its trades are
\* replied to the caller and appended to the history.
C35_UnownedBypassLedger ==
    (IsPlaceCall /\ call.order.user_id = NoUser) =>
        /\ call.ok
        /\ orderbook = process_order(call.book, call.order).book
        /\ call.trades = process_order(call.book, call.order).trades
        /\ balances = call.balances
        /\ call.emitted = <<>>
        /\ db_tx = call.db
        /\ pending = NoPending
        /\ trades_history = call.history \o call.trades
        /\ \E i \in 1 .. Len(replies) :
               replies[i] = Reply(Len(handled), call.trades)

\* the simulator's order traded with a resting order of u2
C35_Witness ==
    /\ IsPlaceCall
    /\ call.order.user_id = NoUser
    /\ call.trades # <<>>
    /\ \E o \in MakersOf(call.trades, call.book) : o.user_id = "u2"
    /\ call.balances # NewAccountManager
    /\ Len(trades_history) > Len(call.history)

-----------------------------------------------------------------------------
(* The content of the trade history *)

\* n trades in the order they are produced, the first of them being trade
\* number first + 1 of the run: maker_id carries the number
NumberedTrades(first, n) == [i \in 1 .. n |-> Trade(first + i, 0, 100, 1)]

\* the numbers of trades one PlaceOrder adds
BatchSizes == {1, 2, 3000, 5001}

\* The actor waiting for a message, with no trade yet or one trade short of
\* the high-water mark; `issued` counts the trades produced so far.
InitTrim ==
    /\ orderbook = NewOrderBook
    /\ balances = NewAccountManager
    /\ trades_history \in {<<>>, NumberedTrades(0, HighWaterMark - 1)}
    /\ mailbox = <<>>
    /\ db_tx = <<>>
    /\ db_taken = 0
    /\ pending = NoPending
    /\ replies = <<>>
    /\ handled = <<>>
    /\ since_trim = NoTrim
    /\ issued = Len(trades_history)
    /\ sent = 0
    /\ call = NoCall
    /\ InitEnv

\* The PlaceOrder arm of an unowned order from the return of process_order
\* with k trades on: trades_history.extend(new_trades.clone()), the reply,
\* and the cut at the end of the loop body.
ExtendHistory(k) ==
    /\ sent < MaxCalls
    /\ \E new_trades \in {NumberedTrades(issued, k)} :
           /\ trades_history' = TrimHistory(trades_history \o new_trades)
           /\ since_trim' = SinceTrim(since_trim, trades_history, new_trades)
           /\ call' = [Before("PlaceOrder", NoOrder) EXCEPT
                           !.trades = new_trades]
    /\ issued' = issued + k
    /\ sent' = sent + 1
    /\ UNCHANGED <<orderbook, balances, mailbox, db_tx, db_taken, pending,
                   replies, handled, env_vars>>

\* A read arm and the cut that follows it
ReadThenTrim ==
    /\ sent < MaxCalls
    /\ trades_history' = TrimHistory(trades_history)
    /\ since_trim' = SinceTrim(since_trim, trades_history, <<>>)
    /\ call' = Before("GetTrades", NoOrder)
    /\ sent' = sent + 1
    /\ UNCHANGED <<orderbook, balances, mailbox, db_tx, db_taken, pending,
                   replies, handled, issued, env_vars>>

NextTrim ==
    \/ \E k \in BatchSizes : ExtendHistory(k)
    \/ ReadThenTrim

SpecTrim == InitTrim /\ [][NextTrim]_vars

\* every trade produced so far
AllTrades == NumberedTrades(0, issued)

\* C36: the content of the history.  Whenever the actor waits for its next
\* message the history holds at most HighWaterMark trades and is the newest
\* part, unbroken and in order, of all trades ever produced; a message that
\* ends with more than HighWaterMark trades in the history leaves exactly the
\* newest LowWaterMark of them, also when it alone added more than
\* HighWaterMark, and any other message leaves the history with its trades
\* appended.
C36_HistoryContent ==
    /\ Len(trades_history) <= HighWaterMark
    /\ Len(trades_history) <= issued
    /\ trades_history =
           SubSeq(AllTrades, issued - Len(trades_history) + 1, issued)
    /\ call.op # "none" =>
           LET grown == call.history \o call.trades
           IN  IF Len(grown) > HighWaterMark
               THEN /\ Len(trades_history) = LowWaterMark
                    /\ trades_history =
                           SubSeq(grown, Len(grown) - LowWaterMark + 1,
                                  Len(grown))
               ELSE trades_history = grown

\* one PlaceOrder added more than HighWaterMark trades to a history that
\* already held some, and the newest LowWaterMark are left
C36_Witness ==
    /\ call.op = "PlaceOrder"
    /\ call.history # <<>>
    /\ Len(call.trades) > HighWaterMark
    /\ Len(trades_history) = LowWaterMark
    /\ trades_history[1].maker_id = issued - LowWaterMark + 1

-----------------------------------------------------------------------------
(* C37: the balances a sink holds after the intents, against the ledger *)

\* db::update_balance: UPDATE balances SET available, locked WHERE user_id
\* AND asset; a row that is not in the table is not created
update_balance(rows, user_id, asset, available, locked) ==
    IF <<user_id, asset>> \in DOMAIN rows
    THEN [rows EXCEPT ![<<user_id, asset>>] = <<available, locked>>]
    ELSE rows

\* the balances table as main() reads it into the ledger: a user's rows of
\* both assets exist from the start, those never credited holding 0 and 0
StoredBalances ==
    [pair \in Users \X Assets |->
        get_balance(LoadedLedger, pair[1], pair[2])]

\* the sink applies the intents it accepts in emission order; a SaveTrade
\* intent leaves the balances table alone
RECURSIVE SinkBalances(_, _)
SinkBalances(rows, intents) ==
    IF intents = <<>> THEN rows
    ELSE SinkBalances(
             IF Head(intents).type = "UpdateBalance"
             THEN update_balance(rows, Head(intents).user_id,
                                 Head(intents).asset,
                                 Head(intents).available,
                                 Head(intents).locked)
             ELSE rows,
             Tail(intents))

\* the positions of the UpdateBalance intents of one (user, asset) pair
IntentsOf(intents, user_id, asset) ==
    {i \in 1 .. Len(intents) :
        /\ intents[i].type = "UpdateBalance"
        /\ intents[i].user_id = user_id
        /\ intents[i].asset = asset}

\* the last of them
LastIntent(intents, user_id, asset) ==
    intents[CHOOSE i \in IntentsOf(intents, user_id, asset) :
                \A j \in IntentsOf(intents, user_id, asset) : j <= i]

\* an owned PlaceOrder whose intents have all been sent
OwnedPlaceDone ==
    /\ IsPlaceCall
    /\ call.order.user_id # NoUser
    /\ pending = NoPending

\* C37: once an owned PlaceOrder is fully processed, every (user, asset)
\* pair whose balance the message changed has an UpdateBalance intent, and
\* the most recently emitted one carries the pair's current in-memory
\* (available, locked); a sink that applies all the intents in emission
\* order holds, for every pair, the balance of the engine's ledger.
C37_SinkConvergesToLedger ==
    pending = NoPending =>
        /\ \A u \in Users, a \in Assets :
               SinkBalances(StoredBalances, db_tx)[<<u, a>>]
                   = get_balance(balances, u, a)
        /\ OwnedPlaceDone =>
               \A u \in Users, a \in Assets :
                   get_balance(balances, u, a)
                           # get_balance(call.balances, u, a) =>
                       /\ IntentsOf(db_tx, u, a) # {}
                       /\ LastIntent(db_tx, u, a).available
                              = get_balance(balances, u, a)[1]
                       /\ LastIntent(db_tx, u, a).locked
                              = get_balance(balances, u, a)[2]

\* u1's buy has traded, both of u1's balances changed, and the sink has
\* received every intent
C37_Witness ==
    /\ OwnedPlaceDone
    /\ call.order.user_id = "u1"
    /\ call.trades # <<>>
    /\ get_balance(balances, "u1", USDC) # get_balance(call.balances, "u1", USDC)
    /\ get_balance(balances, "u1", BAD) # get_balance(call.balances, "u1", BAD)
    /\ get_balance(balances, "u1", USDC)[2] > 0
    /\ db_taken = Len(db_tx)

-----------------------------------------------------------------------------
(* SpecRead: read requests among owned and unowned orders *)

\* The actor with nothing resting, before any trade or after HighWaterMark
\* trades of unowned orders.
InitRead ==
    /\ orderbook = NewOrderBook
    /\ balances = LoadedLedger
    /\ trades_history \in {<<>>, EarlierTrades(HighWaterMark)}
    /\ mailbox = <<>>
    /\ db_tx = <<>>
    /\ db_taken = 0
    /\ pending = NoPending
    /\ replies = <<>>
    /\ handled = <<>>
    /\ since_trim = NoTrim
    /\ issued = 0
    /\ sent = 0
    /\ call = NoCall
    /\ InitEnv

ReadOrders ==
    {Order(issued + 1, 100, 5, Buy, "u1", Limit),
     Order(issued + 1, 100, 5, Sell, "u2", Limit),
     Order(issued + 1, 100, 5, Sell, NoUser, Limit)}

NextRead ==
    \/ \E order \in ReadOrders : SendPlaceOrder(order)
    \/ SendGetOrderBook
    \/ SendGetTrades
    \/ HandlePlaceOrder
    \/ HandleGetOrderBook
    \/ HandleGetTrades
    \/ ResumeSend
    \/ DbWriterRecv

SpecRead == InitRead /\ [][NextRead]_vars

\* the last message the actor processed was a read request
IsReadCall == call.op \in {"GetOrderBook", "GetTrades"}

\* C38: processing GetOrderBook or GetTrades leaves the order book and every
\* balance as they were, emits no persistence intent (none sent, none
\* outstanding), and leaves the history as it was.
C38_ReadsHaveNoEffect ==
    IsReadCall =>
        /\ orderbook = call.book
        /\ balances = call.balances
        /\ db_tx = call.db
        /\ pending = NoPending
        /\ trades_history = call.history

\* a read request processed when an order rests in the book, a balance has
\* been locked, an intent has been sent and the history is at the
\* high-water mark, where the cut after the arm has nothing to remove
C38_Witness ==
    /\ IsReadCall
    /\ orderbook # NewOrderBook
    /\ balances # LoadedLedger
    /\ db_tx # <<>>
    /\ Len(trades_history) = HighWaterMark

-----------------------------------------------------------------------------
(* SpecTryLock: try_lock_balance with the prices a request can carry *)

\* Order.price is a Decimal that create_order copies from the request
\* unchecked: negative, zero and positive prices
TryLockPrices == {-1, 0, 50}
TryLockQuantities == {0, 10}

TryLockArgs ==
    {Order(0, p, q, s, u, Limit) :
        p \in TryLockPrices, q \in TryLockQuantities, s \in Side, u \in Users}

NextTryLock ==
    \/ \E u \in Users, asset \in Assets, v \in LoadAmounts : LoadBalance(u, asset, v)
    \/ \E a \in TryLockArgs : TryLockBalance(a)

SpecTryLock == InitAccount /\ [][NextTryLock]_vars

\* the last ledger call was try_lock_balance
IsTryLockCall == call.op = "try_lock_balance"

\* C39: try_lock_balance never increases an available balance and never
\* makes a locked balance smaller, whatever price and quantity it is given,
\* a zero or negative price included.
C39_TryLockNeverFrees ==
    IsTryLockCall =>
        \A u \in Users, a \in Assets :
            /\ get_balance(balances, u, a)[1]
                   <= get_balance(call.balances, u, a)[1]
            /\ get_balance(balances, u, a)[2]
                   >= get_balance(call.balances, u, a)[2]

\* what the code does: the statement holds for every call whose amount to
\* lock is not negative, and a buy at a negative price is accepted
C39_NeverFreesUnlessNegative ==
    IsTryLockCall =>
        /\ call.order.side = Buy /\ call.order.price * call.order.quantity < 0
               => call.ok
        /\ ~(call.order.side = Buy /\ call.order.price < 0)
               => \A u \in Users, a \in Assets :
                      /\ get_balance(balances, u, a)[1]
                             <= get_balance(call.balances, u, a)[1]
                      /\ get_balance(balances, u, a)[2]
                             >= get_balance(call.balances, u, a)[2]

\* a buy of 10 at price -1 has been accepted: available grew by 10 and
\* locked is 10 below what it was
C39_NegativePriceFrees ==
    /\ IsTryLockCall
    /\ call.ok
    /\ call.order.side = Buy
    /\ call.order.price = -1
    /\ get_balance(balances, call.order.user_id, USDC)[1]
           = get_balance(call.balances, call.order.user_id, USDC)[1] + 10
    /\ get_balance(balances, call.order.user_id, USDC)[2]
           = get_balance(call.balances, call.order.user_id, USDC)[2] - 10

=============================================================================
